---------------------------- MODULE Spec2Model ----------------------------
(***************************************************************************)
(* The automation rule engine of the IoT platform                          *)
(* (src/iot_platform/src/services/automation_engine.py) together with the  *)
(* parts of the rule API (src/iot_platform/src/routes/device.py) and of    *)
(* the MQTT ingestion path (src/iot_platform/src/services/mqtt_service.py) *)
(* that write the stores the engine reads.                                 *)
(*                                                                         *)
(* Time is the value of datetime.utcnow() in whole seconds.  A JSON object *)
(* is a record; a JSON value that is not an object (a list, a string, a    *)
(* number, null) is the record NonObject.  A Text column holds             *)
(* [json |-> v], the output of json.dumps(v).                              *)
(***************************************************************************)
EXTENDS Integers, Sequences, FiniteSets, TLC

VARIABLES
    now,              \* datetime.utcnow(), seconds
    rules,            \* the AutomationRule table: id -> row, or NoRow
    samples,          \* the DeviceData table, in rowid order
    statuses,         \* the Device table: device_id -> status
    db_ok,            \* whether a query on the database succeeds
    is_running,       \* AutomationEngine.is_running
    last_evaluation,  \* AutomationEngine.last_evaluation: rule id -> time
    mqtt,             \* the name mqtt_service as the engine module sees it
    th,               \* the threads running _engine_loop
    obs,              \* what the most recent _evaluate_rule call did
    disp,             \* per rule id, its two most recent action dispatches
    effects,          \* side effects of the action being executed, in order
    tz,               \* offset of local time (datetime.now()) from UTC, seconds
    probe,            \* argument and result of a direct evaluator call
    horizon,          \* a tick due after this time is not begun in the model
    budget            \* how many more requests and outages the model admits

vars == <<now, rules, samples, statuses, db_ok, is_running, last_evaluation,
          mqtt, th, obs, disp, effects, tz, probe, horizon, budget>>

(***************************************************************************)
(* Bounds of the model.                                                    *)
(***************************************************************************)
MaxTime == 30
MaxApiTime == 5
MaxRules == 2
MaxSamples == 2
MaxRequests == 2
MaxLiveTime == 6
MaxOutages == 2
MaxRows == 2
MaxDepth == 2
MaxChangeRows == 3
MaxSubActions == 2

Threads == {1, 2}
RuleIds == 1..MaxRules
None == -1

(***************************************************************************)
(* Program constants.                                                      *)
(***************************************************************************)
evaluation_interval == 5
error_sleep == 1
default_min_interval == 30
default_threshold_window == 5
default_change_window == 10
default_interval_minutes == 60
default_delay_seconds == 1

(***************************************************************************)
(* JSON documents and Text columns.                                        *)
(***************************************************************************)
NonObject == [nonobject |-> "list"]

IsObject(v) == "nonobject" \notin DOMAIN v

Has(o, k) == k \in DOMAIN o

\* json.dumps: the text of a JSON value
json_dumps(v) == [json |-> v]

\* json.loads: the value of a text, or ValueError when it is not JSON
json_loads(s) ==
    IF "json" \in DOMAIN s THEN [ok |-> TRUE, val |-> s.json]
                           ELSE [ok |-> FALSE]

Max(S) == CHOOSE x \in S : \A y \in S : y <= x

Min(S) == CHOOSE x \in S : \A y \in S : x <= y

Abs(x) == IF x < 0 THEN -x ELSE x

(***************************************************************************)
(* A parameter whose JSON value has the wrong type for its use (a string   *)
(* where a number is needed, a number where a string is needed) is listed  *)
(* under the key "mistyped" of its object.                                 *)
(***************************************************************************)
Mistyped(o, k) == Has(o, "mistyped") /\ k \in o.mistyped

\* the key holds a value of the type its use needs
Usable(o, k) == Has(o, k) /\ ~Mistyped(o, k)

NoDevice == "<none>"

(***************************************************************************)
(* Queries on the DeviceData table.  order_by(timestamp.desc()) leaves the *)
(* order of rows with equal timestamps to the database: tie says whether   *)
(* the lowest or the highest rowid comes first among them.                 *)
(***************************************************************************)
TieBreaks == {"low", "high"}

\* the rowids the filter of _check_value_threshold / _check_value_change keeps
Matching(device_id, o, since_time) ==
    {i \in 1..Len(samples) :
        /\ samples[i].device_id = device_id
        /\ Usable(o, "data_type")
        /\ samples[i].data_type = o.data_type
        /\ samples[i].timestamp >= since_time}

\* the first row of S under order_by(DeviceData.timestamp.desc())
Newest(S, tie) ==
    LET top == {i \in S : \A j \in S : samples[j].timestamp <= samples[i].timestamp}
    IN  IF tie = "low" THEN Min(top) ELSE Max(top)

\* Compare that takes an unknown operator for a match
Compare_unknown_true(operator, value, threshold) ==
    CASE operator = "gt"  -> value > threshold
      [] operator = "lt"  -> value < threshold
      [] operator = "eq"  -> value = threshold
      [] operator = "gte" -> value >= threshold
      [] operator = "lte" -> value <= threshold
      [] OTHER -> TRUE

Compare(operator, value, threshold) ==
    CASE operator = "gt"  -> value > threshold
      [] operator = "lt"  -> value < threshold
      [] operator = "eq"  -> value = threshold
      [] operator = "gte" -> value >= threshold
      [] operator = "lte" -> value <= threshold
      [] OTHER -> FALSE

Result(v, reads) == [v |-> v, reads |-> reads]

\* check_value_threshold that takes the absence of a sample for a match
check_value_threshold_absent_true(device_id, o, tie) ==
    LET time_window == IF Has(o, "time_window_minutes")
                       THEN o.time_window_minutes ELSE default_threshold_window
    IN  IF Mistyped(o, "time_window_minutes") THEN Result(FALSE, 0)
        ELSE IF ~db_ok THEN Result(FALSE, 1)
        ELSE LET S == Matching(device_id, o, now - 60 * time_window)
             IN  IF S = {} THEN Result(TRUE, 1)
                 ELSE IF ~Usable(o, "operator") THEN Result(FALSE, 1)
                 ELSE IF ~Usable(o, "threshold") THEN Result(FALSE, 1)
                 ELSE Result(Compare(o.operator, samples[Newest(S, tie)].value,
                                     o.threshold), 1)

\* _check_value_threshold
check_value_threshold(device_id, o, tie) ==
    LET time_window == IF Has(o, "time_window_minutes")
                       THEN o.time_window_minutes ELSE default_threshold_window
    IN  IF Mistyped(o, "time_window_minutes") THEN Result(FALSE, 0)  \* TypeError
        ELSE IF ~db_ok THEN Result(FALSE, 1)                         \* query raises
        ELSE LET S == Matching(device_id, o, now - 60 * time_window)
             IN  IF S = {} THEN Result(FALSE, 1)
                 ELSE IF ~Usable(o, "operator") THEN Result(FALSE, 1)
                 ELSE IF ~Usable(o, "threshold") THEN Result(FALSE, 1)
                 ELSE Result(Compare(o.operator, samples[Newest(S, tie)].value,
                                     o.threshold), 1)

\* check_value_change that subtracts the newer value from the older
check_value_change_reversed(device_id, o, tie) ==
    LET time_window == IF Has(o, "time_window_minutes")
                       THEN o.time_window_minutes ELSE default_change_window
        min_change == IF Has(o, "min_change") THEN o.min_change ELSE 0
    IN  IF Mistyped(o, "time_window_minutes") THEN Result(FALSE, 0)
        ELSE IF ~db_ok THEN Result(FALSE, 1)
        ELSE LET S == Matching(device_id, o, now - 60 * time_window)
             IN  IF Cardinality(S) < 2 THEN Result(FALSE, 1)
                 ELSE LET first == Newest(S, tie)
                          second == Newest(S \ {first}, tie)
                          change == samples[second].value - samples[first].value
                      IN  IF ~Usable(o, "change_type") \/ Mistyped(o, "min_change")
                          THEN Result(FALSE, 1)
                          ELSE CASE o.change_type = "increase" ->
                                        Result(change >= min_change, 1)
                                 [] o.change_type = "decrease" ->
                                        Result(change <= -min_change, 1)
                                 [] o.change_type = "any" ->
                                        Result(Abs(change) >= min_change, 1)
                                 [] OTHER -> Result(FALSE, 1)

\* _check_value_change
check_value_change(device_id, o, tie) ==
    LET time_window == IF Has(o, "time_window_minutes")
                       THEN o.time_window_minutes ELSE default_change_window
        min_change == IF Has(o, "min_change") THEN o.min_change ELSE 0
    IN  IF Mistyped(o, "time_window_minutes") THEN Result(FALSE, 0)
        ELSE IF ~db_ok THEN Result(FALSE, 1)
        ELSE LET S == Matching(device_id, o, now - 60 * time_window)
             IN  IF Cardinality(S) < 2 THEN Result(FALSE, 1)
                 ELSE LET first == Newest(S, tie)
                          second == Newest(S \ {first}, tie)
                          change == samples[first].value - samples[second].value
                      IN  IF ~Usable(o, "change_type") \/ Mistyped(o, "min_change")
                          THEN Result(FALSE, 1)
                          ELSE CASE o.change_type = "increase" ->
                                        Result(change >= min_change, 1)
                                 [] o.change_type = "decrease" ->
                                        Result(change <= -min_change, 1)
                                 [] o.change_type = "any" ->
                                        Result(Abs(change) >= min_change, 1)
                                 [] OTHER -> Result(FALSE, 1)

(***************************************************************************)
(* Local time.  Second 0 is a Monday, 00:00 UTC.  A time string "HH:MM" is *)
(* the sequence of its five characters, a digit as its value and ":" as    *)
(* 10, so that the order of the codes is the order of the characters.      *)
(***************************************************************************)
Colon == 10

\* the string "HH:MM" of an hour and a minute, zero-padded
Clock(hh, mm) == <<hh \div 10, hh % 10, Colon, mm \div 10, mm % 10>>

LocalSeconds == now + tz

\* datetime.now().strftime("%H:%M")
strftime_HM ==
    LET m == (LocalSeconds \div 60) % 1440
        hh == m \div 60
        mm == m % 60
    IN  <<hh \div 10, hh % 10, Colon, mm \div 10, mm % 10>>

\* datetime.now().weekday(), Monday = 0
weekday == (LocalSeconds \div 86400) % 7

RECURSIVE StrLess(_, _)
\* a < b for Python strings
StrLess(a, b) ==
    IF b = <<>> THEN FALSE
    ELSE IF a = <<>> THEN TRUE
    ELSE IF Head(a) # Head(b) THEN Head(a) < Head(b)
    ELSE StrLess(Tail(a), Tail(b))

\* StrLeq that leaves equal strings out
StrLeq_strict(a, b) == StrLess(a, b)

StrLeq(a, b) == a = b \/ StrLess(a, b)

\* interval_elapsed that counts a missing last_trigger as time 0
interval_elapsed_from_zero(o) ==
    LET interval_minutes == IF Has(o, "interval_minutes")
                            THEN o.interval_minutes ELSE default_interval_minutes
    IN  IF ~Has(o, "last_trigger") THEN now >= interval_minutes * 60
        ELSE IF ~Has(o.last_trigger, "iso") THEN FALSE
        ELSE IF Mistyped(o, "interval_minutes") THEN FALSE
        ELSE now - o.last_trigger.iso >= interval_minutes * 60

\* datetime.fromisoformat followed by the interval test
interval_elapsed(o) ==
    LET interval_minutes == IF Has(o, "interval_minutes")
                            THEN o.interval_minutes ELSE default_interval_minutes
    IN  IF ~Has(o, "last_trigger") THEN TRUE
        ELSE IF ~Has(o.last_trigger, "iso") THEN FALSE        \* ValueError
        ELSE IF Mistyped(o, "interval_minutes") THEN FALSE    \* TypeError
        ELSE now - o.last_trigger.iso >= interval_minutes * 60

\* _check_time_based
check_time_based(o) ==
    IF ~Usable(o, "time_type") THEN Result(FALSE, 0)
    ELSE CASE o.time_type = "time_of_day" ->
                IF ~Usable(o, "start_time") \/ ~Usable(o, "end_time")
                THEN Result(FALSE, 0)                          \* TypeError
                ELSE IF StrLeq(o.start_time, o.end_time)
                THEN Result(StrLeq(o.start_time, strftime_HM)
                            /\ StrLeq(strftime_HM, o.end_time), 0)
                ELSE Result(StrLeq(o.start_time, strftime_HM)
                            \/ StrLeq(strftime_HM, o.end_time), 0)
           [] o.time_type = "day_of_week" ->
                IF Mistyped(o, "days") THEN Result(FALSE, 0)
                ELSE Result(weekday \in (IF Has(o, "days") THEN o.days ELSE {}), 0)
           [] o.time_type = "interval" -> Result(interval_elapsed(o), 0)
           [] OTHER -> Result(FALSE, 0)

\* _check_device_status
check_device_status(device_id, o) ==
    IF ~db_ok THEN Result(FALSE, 1)
    ELSE IF device_id \notin DOMAIN statuses THEN Result(FALSE, 1)
    ELSE IF ~Usable(o, "status") THEN Result(FALSE, 1)
    ELSE Result(statuses[device_id] = o.status, 1)

\* child_device that falls back on the device sensor_001
child_device_fallback(sub_cond) ==
    IF Usable(sub_cond, "device_id") THEN sub_cond.device_id ELSE "sensor_001"

child_device(sub_cond) ==
    IF Usable(sub_cond, "device_id") THEN sub_cond.device_id ELSE NoDevice

RECURSIVE check_trigger_condition(_, _, _)
RECURSIVE check_all(_, _)
RECURSIVE check_any(_, _)

\* check_all that looks at the first child only
check_all_first(subs, tie) ==
    IF subs = <<>> THEN Result(TRUE, 0)
    ELSE IF ~IsObject(Head(subs)) THEN Result(FALSE, 0)
    ELSE check_trigger_condition(child_device(Head(subs)), Head(subs), tie)

\* all(...) over the generator of _check_composite_condition: stops at the
\* first false child; a child that is not an object raises out of the
\* generator and the except clause returns False
check_all(subs, tie) ==
    IF subs = <<>> THEN Result(TRUE, 0)
    ELSE IF ~IsObject(Head(subs)) THEN Result(FALSE, 0)
    ELSE LET r == check_trigger_condition(child_device(Head(subs)), Head(subs), tie)
         IN  IF ~r.v THEN r
             ELSE LET rest == check_all(Tail(subs), tie)
                  IN  Result(rest.v, r.reads + rest.reads)

\* any(...): stops at the first true child
check_any(subs, tie) ==
    IF subs = <<>> THEN Result(FALSE, 0)
    ELSE IF ~IsObject(Head(subs)) THEN Result(FALSE, 0)
    ELSE LET r == check_trigger_condition(child_device(Head(subs)), Head(subs), tie)
         IN  IF r.v THEN r
             ELSE LET rest == check_any(Tail(subs), tie)
                  IN  Result(rest.v, r.reads + rest.reads)

\* _check_composite_condition
check_composite_condition(o, tie) ==
    LET operator == IF Has(o, "operator") THEN o.operator ELSE "AND"
        sub_conditions == IF Has(o, "conditions") THEN o.conditions ELSE <<>>
    IN  IF Mistyped(o, "operator") THEN Result(FALSE, 0)
        ELSE IF operator \notin {"AND", "OR"} THEN Result(FALSE, 0)
        ELSE IF Mistyped(o, "conditions") THEN Result(FALSE, 0)   \* not iterable
        ELSE IF operator = "AND" THEN check_all(sub_conditions, tie)
        ELSE check_any(sub_conditions, tie)

\* _check_trigger_condition, for a condition that is an object
check_trigger_condition(device_id, o, tie) ==
    IF ~Usable(o, "type") THEN Result(FALSE, 0)
    ELSE CASE o.type = "value_threshold" -> check_value_threshold(device_id, o, tie)
           [] o.type = "value_change" -> check_value_change(device_id, o, tie)
           [] o.type = "time_based" -> check_time_based(o)
           [] o.type = "device_status" -> check_device_status(device_id, o)
           [] o.type = "composite" -> check_composite_condition(o, tie)
           [] OTHER -> Result(FALSE, 0)

(***************************************************************************)
(* The action executor.  An action tree is flattened, in execution order,  *)
(* into the calls of the _execute_* methods it leads to; the engine thread *)
(* then performs them one at a time.                                       *)
(***************************************************************************)
Op(kind, device_id, action) ==
    [op |-> kind, device_id |-> device_id, action |-> action]

ActionTypes == {"device_command", "notification", "webhook", "delay"}

RECURSIVE execute_action(_, _)
RECURSIVE execute_sequence(_)

\* the loop of _execute_sequence: a sub-action that is not an object raises
\* at sub_action.get and the except clause of _execute_sequence ends the loop
execute_sequence(actions) ==
    IF actions = <<>> THEN <<>>
    ELSE IF ~IsObject(Head(actions)) THEN <<>>
    ELSE execute_action(child_device(Head(actions)), Head(actions))
         \o execute_sequence(Tail(actions))

\* _execute_action
execute_action(device_id, action) ==
    IF ~IsObject(action) THEN <<>>                    \* AttributeError, logged
    ELSE IF ~Usable(action, "type") THEN <<Op("unknown", device_id, action)>>
    ELSE IF action.type \in ActionTypes
         THEN <<Op(action.type, device_id, action)>>
    ELSE IF action.type = "sequence"
         THEN IF Mistyped(action, "actions") THEN <<>>
              ELSE execute_sequence(IF Has(action, "actions")
                                    THEN action.actions ELSE <<>>)
    ELSE <<Op("unknown", device_id, action)>>

\* str.upper on the method names of the model
upper(m) ==
    CASE m = "post" -> "POST"
      [] m = "get" -> "GET"
      [] m = "put" -> "PUT"
      [] OTHER -> m

\* MQTTService.publish_command: what is published, or nothing
publish_command(device_id, command) ==
    IF mqtt.connected
    THEN <<[kind |-> "publish", topic |-> <<"devices", device_id, "commands">>,
            payload |-> json_dumps(command)]>>
    ELSE <<>>

\* _execute_device_command
execute_device_command(device_id, action) ==
    LET command == IF Has(action, "command") THEN action.command ELSE [x \in {} |-> 0]
    IN  IF mqtt.bound /\ mqtt.connected
        THEN publish_command(device_id, command)
        ELSE <<[kind |-> "mqtt_unavailable"]>>

\* _execute_notification
execute_notification(action) ==
    LET notification_type == IF Has(action, "notification_type")
                             THEN action.notification_type ELSE "log"
    IN  IF ~Mistyped(action, "notification_type") /\ notification_type = "log"
        THEN <<[kind |-> "log"]>>
        ELSE <<>>

\* execute_webhook that posts whatever the method
execute_webhook_any_method(action, ok) ==
    <<[kind |-> "http", call |-> "post", sent |-> "json", ok |-> ok]>>

\* _execute_webhook; ok says whether the HTTP call returns
execute_webhook(action, ok) ==
    LET method == IF Has(action, "method") THEN action.method ELSE "POST"
    IN  IF Mistyped(action, "method") THEN <<>>        \* AttributeError
        ELSE IF upper(method) = "POST"
             THEN <<[kind |-> "http", call |-> "post", sent |-> "json", ok |-> ok]>>
        ELSE IF upper(method) = "GET"
             THEN <<[kind |-> "http", call |-> "get", sent |-> "params", ok |-> ok]>>
        ELSE <<>>

\* _execute_delay: the seconds time.sleep blocks for, None when it raises
execute_delay(action) ==
    LET delay_seconds == IF Has(action, "delay_seconds")
                         THEN action.delay_seconds ELSE default_delay_seconds
    IN  IF Mistyped(action, "delay_seconds") THEN None      \* TypeError
        ELSE IF delay_seconds < 0 THEN None                 \* ValueError
        ELSE delay_seconds

(***************************************************************************)
(* The rule store and the requests of the rule API.                        *)
(***************************************************************************)
NoRow == [id |-> None]

Exists(i) == rules[i].id # None

\* the primary key SQLite gives a new row: one more than the largest in use
next_rule_id ==
    IF \E i \in RuleIds : Exists(i) THEN Max({i \in RuleIds : Exists(i)}) + 1 ELSE 1

TurnOn == [type |-> "device_command",
           command |-> [action |-> "turn_on", brightness |-> 80]]

\* a sequence in which every kind of sub-action failure occurs
DelayThenTurnOn ==
    [type |-> "sequence",
     actions |-> <<[type |-> "delay", delay_seconds |-> 3],
                   [device_id |-> "light_001", type |-> "device_command",
                    command |-> [action |-> "turn_on", brightness |-> 60]],
                   [type |-> "webhook", url |-> "http://hook", method |-> "post"],
                   [type |-> "webhook", url |-> "http://hook", method |-> "put"],
                   [type |-> "email"],
                   [type |-> "delay", delay_seconds |-> -1]>>]

\* the motion rule of create_sample_rules without its min_interval_seconds
MotionCondition ==
    [type |-> "value_threshold", data_type |-> "motion", operator |-> "eq",
     threshold |-> 1, time_window_minutes |-> 1]

IntervalCondition ==
    [type |-> "time_based", time_type |-> "interval", min_interval_seconds |-> 7]

\* request bodies of POST /automation/rules
RuleBodies ==
    {[trigger_device_id |-> "motion_001", trigger_condition |-> MotionCondition,
      action_device_id |-> "light_001", action_command |-> TurnOn],
     [trigger_device_id |-> "", trigger_condition |-> IntervalCondition,
      action_device_id |-> "light_001", action_command |-> DelayThenTurnOn],
     [trigger_device_id |-> "motion_001", trigger_condition |-> NonObject,
      action_device_id |-> "light_001", action_command |-> TurnOn]}

\* a row as create_automation_rule stores it
NewRow(id, data) ==
    [id |-> id,
     is_active |-> TRUE,
     trigger_device_id |-> data.trigger_device_id,
     trigger_condition |-> json_dumps(data.trigger_condition),
     action_device_id |-> data.action_device_id,
     action_command |-> json_dumps(data.action_command)]

\* create_automation_rule
create_automation_rule(data) ==
    /\ budget > 0
    /\ budget' = budget - 1
    /\ db_ok
    /\ next_rule_id \in RuleIds
    /\ rules' = [rules EXCEPT ![next_rule_id] = NewRow(next_rule_id, data)]
    /\ UNCHANGED <<now, samples, statuses, db_ok, is_running, last_evaluation,
                   mqtt, th, obs, disp, effects, tz, probe, horizon>>

\* request bodies of PUT /automation/rules/<id>
UpdateBodies ==
    {[is_active |-> FALSE], [is_active |-> TRUE],
     [trigger_condition |-> IntervalCondition]}

\* update_automation_rule
update_automation_rule(rule_id, data) ==
    /\ budget > 0
    /\ budget' = budget - 1
    /\ db_ok
    /\ Exists(rule_id)
    /\ rules' = [rules EXCEPT ![rule_id] =
          [@ EXCEPT !.is_active = IF Has(data, "is_active")
                                  THEN data.is_active ELSE @,
                    !.trigger_condition =
                        IF Has(data, "trigger_condition")
                        THEN json_dumps(data.trigger_condition) ELSE @,
                    !.action_command =
                        IF Has(data, "action_command")
                        THEN json_dumps(data.action_command) ELSE @]]
    /\ rules' # rules
    /\ UNCHANGED <<now, samples, statuses, db_ok, is_running, last_evaluation,
                   mqtt, th, obs, disp, effects, tz, probe, horizon>>

\* delete_automation_rule
delete_automation_rule(rule_id) ==
    /\ budget > 0
    /\ budget' = budget - 1
    /\ db_ok
    /\ Exists(rule_id)
    /\ rules' = [rules EXCEPT ![rule_id] = NoRow]
    /\ UNCHANGED <<now, samples, statuses, db_ok, is_running, last_evaluation,
                   mqtt, th, obs, disp, effects, tz, probe, horizon>>

\* MQTTService.handle_device_data for a payload with one data value and no
\* timestamp of its own
handle_device_data(device_id, data_type, value) ==
    /\ db_ok
    /\ Len(samples) < MaxSamples
    /\ samples' = Append(samples, [device_id |-> device_id, data_type |-> data_type,
                                   value |-> value, timestamp |-> now])
    /\ statuses' = [d \in DOMAIN statuses \cup {device_id} |->
                        IF d = device_id THEN "online" ELSE statuses[d]]
    /\ UNCHANGED <<now, rules, db_ok, is_running, last_evaluation,
                   mqtt, th, obs, disp, effects, tz, probe, horizon, budget>>

\* the database becomes unreachable, or reachable again
DbFails ==
    /\ budget > 0
    /\ budget' = budget - 1
    /\ db_ok' = ~db_ok
    /\ UNCHANGED <<now, rules, samples, statuses, is_running, last_evaluation,
                   mqtt, th, obs, disp, effects, tz, probe, horizon>>

(***************************************************************************)
(* The engine.                                                             *)
(*                                                                         *)
(* A thread is a record: where it is in _engine_loop (pc), the rows its    *)
(* query returned (snapshot), the position of the for loop (idx), the      *)
(* calls left of the action it executes (todo), the time its time.sleep    *)
(* ends (wake).  Its field tick records the current or last tick for the   *)
(* properties below: how the query ended (fetch), when (at), the ids that  *)
(* were active and inactive in the store and the active rows as committed  *)
(* at that moment, the ids _evaluate_rule was called for (done), and how   *)
(* many of them had been done when stop() was called (stopped).            *)
(***************************************************************************)
NoTick == [fetch |-> "none", after |-> "none", odd |-> FALSE, at |-> None,
           active |-> {}, inactive |-> {}, rows |-> {}, done |-> <<>>,
           stopped |-> None]

IdleThread == [pc |-> "idle", snapshot |-> <<>>, idx |-> 0, todo |-> <<>>,
               wake |-> 0, tick |-> NoTick]

Live(t) == th[t].pc \notin {"idle", "exited"}

InTick(t) == th[t].pc \in {"rule", "acting"}

\* AutomationEngine.start
start(t) ==
    /\ th[t].pc = "idle"
    /\ \A u \in Threads : u < t => th[u].pc # "idle"
    /\ is_running' = TRUE
    /\ th' = [th EXCEPT ![t] = [IdleThread EXCEPT !.pc = "head", !.wake = now]]
    /\ UNCHANGED <<now, rules, samples, statuses, db_ok, last_evaluation,
                   mqtt, obs, disp, effects, tz, probe, horizon, budget>>

\* AutomationEngine.stop
stop ==
    /\ is_running
    /\ is_running' = FALSE
    /\ th' = [t \in Threads |->
                IF InTick(t) /\ th[t].tick.stopped = None
                THEN [th[t] EXCEPT !.tick.stopped = Len(th[t].tick.done)]
                ELSE th[t]]
    /\ UNCHANGED <<now, rules, samples, statuses, db_ok, last_evaluation,
                   mqtt, obs, disp, effects, tz, probe, horizon, budget>>

StoreActive(rule_id) == Exists(rule_id) /\ rules[rule_id].is_active

RECURSIVE SortedRows(_)
\* the rows of a set of ids, in id order
SortedRows(S) ==
    IF S = {} THEN <<>>
    ELSE <<rules[Min(S)]>> \o SortedRows(S \ {Min(S)})

\* active_rules without the filter on is_active
active_rules_unfiltered == SortedRows({i \in RuleIds : Exists(i)})

\* active_rules that returns the first row only
active_rules_first ==
    LET ids == {i \in RuleIds : Exists(i) /\ rules[i].is_active}
    IN  IF ids = {} THEN <<>> ELSE <<rules[Min(ids)]>>

\* AutomationRule.query.filter_by(is_active=True).all()
active_rules == SortedRows({i \in RuleIds : Exists(i) /\ rules[i].is_active})

Awake(t) == now >= th[t].wake

\* the thread in time.sleep(seconds), after which it is back at the test of
\* the while loop
Sleeping(t, seconds) ==
    [th[t] EXCEPT !.pc = "head", !.snapshot = <<>>, !.idx = 0, !.todo = <<>>,
                  !.wake = now + seconds]

\* _engine_loop when app_context() raised: the except clause sleeps a second
after_loop_error(t) == Sleeping(t, error_sleep)

\* after_fetch_error that lets the exception end _engine_loop
after_fetch_error_fatal(t) ==
    [th[t] EXCEPT !.pc = "exited", !.snapshot = <<>>, !.idx = 0, !.todo = <<>>]

\* _evaluate_all_rules when the query raised: the error is logged, the call
\* returns and _engine_loop sleeps the evaluation interval
after_fetch_error(t) == Sleeping(t, evaluation_interval)

NewTick(t, how) ==
    [fetch |-> how, after |-> th[t].tick.fetch, odd |-> ~th[t].tick.odd,
     at |-> now,
     active |-> {i \in RuleIds : StoreActive(i)},
     inactive |-> {i \in RuleIds : Exists(i) /\ ~rules[i].is_active},
     rows |-> {rules[i] : i \in {j \in RuleIds : StoreActive(j)}},
     done |-> <<>>, stopped |-> None]

\* _engine_loop: the test of is_running and, when it holds, the entry into
\* _evaluate_all_rules up to the query; ctx_ok says whether app_context()
\* could be entered
engine_loop_head(t, ctx_ok) ==
    /\ th[t].pc = "head"
    /\ Awake(t)
    /\ ctx_ok \/ budget > 0
    /\ budget' = IF is_running /\ ~ctx_ok THEN budget - 1 ELSE budget
    /\ IF ~is_running
       THEN /\ th' = [th EXCEPT ![t].pc = "exited"]
            /\ UNCHANGED effects
       ELSE /\ th[t].wake <= horizon
            /\ IF ~ctx_ok
               THEN /\ th' = [th EXCEPT ![t] =
                          [after_loop_error(t) EXCEPT !.tick = NewTick(t, "ctx")]]
                    /\ UNCHANGED effects
               ELSE IF ~db_ok
               THEN /\ th' = [th EXCEPT ![t] =
                          [after_fetch_error(t) EXCEPT !.tick = NewTick(t, "failed")]]
                    /\ effects' = <<>>
               ELSE IF active_rules = <<>>
               THEN /\ th' = [th EXCEPT ![t] =
                          [Sleeping(t, evaluation_interval)
                              EXCEPT !.tick = NewTick(t, "ok")]]
                    /\ effects' = <<>>
               ELSE /\ th' = [th EXCEPT ![t].pc = "rule",
                                        ![t].snapshot = active_rules,
                                        ![t].idx = 1,
                                        ![t].tick = NewTick(t, "ok")]
                    /\ effects' = <<>>
    /\ UNCHANGED <<now, rules, samples, statuses, db_ok, is_running,
                   last_evaluation, mqtt, obs, disp, tz, probe, horizon>>

datetime_min == -1000000

\* self.last_evaluation.get(rule_key, datetime.min)
last_eval(rule_id) ==
    IF last_evaluation[rule_id] = None THEN datetime_min
    ELSE last_evaluation[rule_id]

\* rate_limited with the comparison made inclusive
rate_limited_inclusive(rule_id, min_interval) ==
    now - last_eval(rule_id) <= min_interval

\* the test of _evaluate_rule that returns before the condition is checked
rate_limited(rule_id, min_interval) == now - last_eval(rule_id) < min_interval

\* next_rule without the try/except around the call: an exception ends the
\* for loop
next_rule_abort(idx, raised) == IF raised THEN idx + MaxRules + 1 ELSE idx + 1

\* the for loop of _evaluate_all_rules after the call for snapshot[idx]
\* has ended, raised says whether by an exception: the next position
next_rule(idx, raised) == idx + 1

\* Advance that tests is_running after every rule and leaves the tick when
\* it is false
Advance_checking_stop(t, raised) ==
    LET done == Append(th[t].tick.done, th[t].snapshot[th[t].idx].id)
        nxt == next_rule(th[t].idx, raised)
    IN  IF nxt > Len(th[t].snapshot) \/ ~is_running
        THEN [Sleeping(t, 0) EXCEPT !.tick.done = done]
        ELSE [th[t] EXCEPT !.pc = "rule", !.idx = nxt, !.todo = <<>>,
                           !.tick.done = done]

\* the thread after _evaluate_rule returned for snapshot[idx]
Advance(t, raised) ==
    LET done == Append(th[t].tick.done, th[t].snapshot[th[t].idx].id)
        nxt == next_rule(th[t].idx, raised)
    IN  IF nxt > Len(th[t].snapshot)
        THEN [Sleeping(t, evaluation_interval) EXCEPT !.tick.done = done]
        ELSE [th[t] EXCEPT !.pc = "rule", !.idx = nxt, !.todo = <<>>,
                           !.tick.done = done]

\* what a call of _evaluate_rule did: for which rule and when, how it ended,
\* the store reads it made, the min_interval_seconds (T) and the fire-state
\* entry it saw, whether the condition held, and whether the rule was
\* active in the store at that moment
Observation(t, row, outcome, reads, T, holds) ==
    [thread |-> t, rule |-> row.id, at |-> now, outcome |-> outcome,
     reads |-> reads, T |-> T, entry |-> last_evaluation[row.id],
     holds |-> holds, active |-> StoreActive(row.id)]

\* evaluate_rule with the rate limit applied after the condition was checked
evaluate_rule_postfilter(row, tie) ==
    LET parsed == json_loads(row.trigger_condition)
    IN  IF ~parsed.ok \/ ~IsObject(parsed.val)
        THEN [outcome |-> "error", reads |-> 0, T |-> None, holds |-> FALSE]
        ELSE LET cond == parsed.val
                 min_interval == IF Has(cond, "min_interval_seconds")
                                 THEN cond.min_interval_seconds
                                 ELSE default_min_interval
                 r == check_trigger_condition(row.trigger_device_id, cond, tie)
                 action == json_loads(row.action_command)
             IN  IF Mistyped(cond, "min_interval_seconds")
                 THEN [outcome |-> "error", reads |-> 0, T |-> None,
                       holds |-> FALSE]
                 ELSE IF ~r.v
                 THEN [outcome |-> "false", reads |-> r.reads, T |-> min_interval,
                       holds |-> FALSE]
                 ELSE IF rate_limited(row.id, min_interval)
                 THEN [outcome |-> "gated", reads |-> r.reads, T |-> min_interval,
                       holds |-> r.v]
                 ELSE IF ~action.ok
                 THEN [outcome |-> "error", reads |-> r.reads, T |-> min_interval,
                       holds |-> TRUE]
                 ELSE [outcome |-> "fired", reads |-> r.reads, T |-> min_interval,
                       holds |-> TRUE,
                       todo |-> execute_action(row.action_device_id, action.val)]

\* the outcome of _evaluate_rule up to the call of _execute_action:
\* "error" (an exception reached the except clause), "gated", "false", or
\* "fired" with the calls the action leads to
evaluate_rule(row, tie) ==
    LET parsed == json_loads(row.trigger_condition)
    IN  IF ~parsed.ok \/ ~IsObject(parsed.val)
        THEN [outcome |-> "error", reads |-> 0, T |-> None, holds |-> FALSE]
        ELSE LET cond == parsed.val
                 min_interval == IF Has(cond, "min_interval_seconds")
                                 THEN cond.min_interval_seconds
                                 ELSE default_min_interval
                 r == check_trigger_condition(row.trigger_device_id, cond, tie)
                 action == json_loads(row.action_command)
             IN  IF Mistyped(cond, "min_interval_seconds")
                 THEN [outcome |-> "error", reads |-> 0, T |-> None,
                       holds |-> FALSE]
                 ELSE IF rate_limited(row.id, min_interval)
                 THEN [outcome |-> "gated", reads |-> 0, T |-> min_interval,
                       holds |-> r.v]
                 ELSE IF ~r.v
                 THEN [outcome |-> "false", reads |-> r.reads, T |-> min_interval,
                       holds |-> FALSE]
                 ELSE IF ~action.ok
                 THEN [outcome |-> "error", reads |-> r.reads, T |-> min_interval,
                       holds |-> TRUE]
                 ELSE [outcome |-> "fired", reads |-> r.reads, T |-> min_interval,
                       holds |-> TRUE,
                       todo |-> execute_action(row.action_device_id, action.val)]

\* EvaluateRule that marks the rule's row as evaluated
EvaluateRule_marking_row(t, tie) ==
    /\ th[t].pc = "rule"
    /\ Awake(t)
    /\ LET row == th[t].snapshot[th[t].idx]
           e == evaluate_rule(row, tie)
       IN  /\ obs' = Observation(t, row, e.outcome, e.reads, e.T, e.holds)
           /\ IF e.outcome = "fired"
              THEN /\ th' = [th EXCEPT ![t].pc = "acting", ![t].todo = e.todo]
                   /\ disp' = [disp EXCEPT ![row.id] =
                                  [prev |-> @.last, last |-> now, T |-> e.T]]
              ELSE /\ th' = [th EXCEPT ![t] = Advance(t, e.outcome = "error")]
                   /\ UNCHANGED disp
    /\ rules' = [rules EXCEPT ![th[t].snapshot[th[t].idx].id].is_active = FALSE]
    /\ UNCHANGED <<now, samples, statuses, db_ok, is_running,
                   last_evaluation, mqtt, effects, tz, probe, horizon, budget>>

\* _evaluate_rule for snapshot[idx], up to the call of _execute_action
\* EvaluateRule that records the firing when it dispatches the action
EvaluateRule_recording(t, tie) ==
    /\ th[t].pc = "rule"
    /\ Awake(t)
    /\ LET row == th[t].snapshot[th[t].idx]
           e == evaluate_rule(row, tie)
       IN  /\ obs' = Observation(t, row, e.outcome, e.reads, e.T, e.holds)
           /\ IF e.outcome = "fired"
              THEN /\ th' = [th EXCEPT ![t].pc = "acting", ![t].todo = e.todo]
                   /\ disp' = [disp EXCEPT ![row.id] =
                                  [prev |-> @.last, last |-> now, T |-> e.T]]
                   /\ last_evaluation' = [last_evaluation EXCEPT ![row.id] = now]
              ELSE /\ th' = [th EXCEPT ![t] = Advance(t, e.outcome = "error")]
                   /\ UNCHANGED <<disp, last_evaluation>>
    /\ UNCHANGED <<now, rules, samples, statuses, db_ok, is_running,
                   mqtt, effects, tz, probe, horizon, budget>>

EvaluateRule(t, tie) ==
    /\ th[t].pc = "rule"
    /\ Awake(t)
    /\ LET row == th[t].snapshot[th[t].idx]
           e == evaluate_rule(row, tie)
       IN  /\ obs' = Observation(t, row, e.outcome, e.reads, e.T, e.holds)
           /\ IF e.outcome = "fired"
              THEN /\ th' = [th EXCEPT ![t].pc = "acting", ![t].todo = e.todo]
                   /\ disp' = [disp EXCEPT ![row.id] =
                                  [prev |-> @.last, last |-> now, T |-> e.T]]
              ELSE /\ th' = [th EXCEPT ![t] = Advance(t, e.outcome = "error")]
                   /\ UNCHANGED disp
    /\ UNCHANGED <<now, rules, samples, statuses, db_ok, is_running,
                   last_evaluation, mqtt, effects, tz, probe, horizon, budget>>

RuleOf(t) == th[t].snapshot[th[t].idx].id

Effect(t, e) == [rule |-> RuleOf(t), at |-> now, did |-> e]

\* execute_op that posts to a webhook for an action of unknown type
execute_op_unknown_posts(o, http_ok) ==
    CASE o.op = "device_command" -> execute_device_command(o.device_id, o.action)
      [] o.op = "notification" -> execute_notification(o.action)
      [] o.op = "webhook" -> execute_webhook(o.action, http_ok)
      [] o.op = "delay" ->
            IF execute_delay(o.action) = None
            THEN <<[kind |-> "delay_error"]>>
            ELSE <<[kind |-> "sleep", seconds |-> execute_delay(o.action)]>>
      [] OTHER -> <<[kind |-> "http", call |-> "post", sent |-> "json",
                     ok |-> http_ok]>>

\* what one call of an _execute_* method does; http_ok says whether an HTTP
\* call it makes returns
execute_op(o, http_ok) ==
    CASE o.op = "device_command" -> execute_device_command(o.device_id, o.action)
      [] o.op = "notification" -> execute_notification(o.action)
      [] o.op = "webhook" -> execute_webhook(o.action, http_ok)
      [] o.op = "delay" ->
            IF execute_delay(o.action) = None
            THEN <<[kind |-> "delay_error"]>>
            ELSE <<[kind |-> "sleep", seconds |-> execute_delay(o.action)]>>
      [] OTHER -> <<[kind |-> "unknown_type"]>>

\* ExecuteStep with a delay that does not block the thread
ExecuteStep_nonblocking(t, http_ok) ==
    /\ th[t].pc = "acting"
    /\ Awake(t)
    /\ th[t].todo # <<>>
    /\ LET o == Head(th[t].todo)
           did == execute_op(o, http_ok)
           slept == IF did # <<>> /\ did[1].kind = "sleep"
                    THEN did[1].seconds ELSE 0
       IN  /\ th' = [th EXCEPT ![t].todo = Tail(@), ![t].wake = now]
           /\ effects' = effects \o [k \in 1..Len(did) |-> Effect(t, did[k])]
           /\ (o.op = "webhook" \/ http_ok)
    /\ UNCHANGED <<now, rules, samples, statuses, db_ok, is_running,
                   last_evaluation, mqtt, obs, disp, tz, probe, horizon, budget>>

\* the next call of the action being executed
ExecuteStep(t, http_ok) ==
    /\ th[t].pc = "acting"
    /\ Awake(t)
    /\ th[t].todo # <<>>
    /\ LET o == Head(th[t].todo)
           did == execute_op(o, http_ok)
           slept == IF did # <<>> /\ did[1].kind = "sleep"
                    THEN did[1].seconds ELSE 0
       IN  /\ th' = [th EXCEPT ![t].todo = Tail(@), ![t].wake = now + slept]
           /\ effects' = effects \o [k \in 1..Len(did) |-> Effect(t, did[k])]
           /\ (o.op = "webhook" \/ http_ok)
    /\ UNCHANGED <<now, rules, samples, statuses, db_ok, is_running,
                   last_evaluation, mqtt, obs, disp, tz, probe, horizon, budget>>

\* RecordFiring that records the firing only when no call of the action
\* failed
RecordFiring_if_succeeded(t) ==
    /\ th[t].pc = "acting"
    /\ Awake(t)
    /\ th[t].todo = <<>>
    /\ last_evaluation' =
          IF \E k \in 1..Len(effects) :
                /\ effects[k].rule = RuleOf(t)
                /\ \/ effects[k].did.kind \in {"mqtt_unavailable", "delay_error",
                                               "unknown_type"}
                   \/ effects[k].did.kind = "http" /\ ~effects[k].did.ok
          THEN last_evaluation
          ELSE [last_evaluation EXCEPT ![RuleOf(t)] = now]
    /\ th' = [th EXCEPT ![t] = Advance(t, FALSE)]
    /\ UNCHANGED <<now, rules, samples, statuses, db_ok, is_running,
                   mqtt, obs, disp, effects, tz, probe, horizon, budget>>

\* RecordFiring that stamps the entry of every rule
RecordFiring_every_rule(t) ==
    /\ th[t].pc = "acting"
    /\ Awake(t)
    /\ th[t].todo = <<>>
    /\ last_evaluation' = [i \in RuleIds |-> now]
    /\ th' = [th EXCEPT ![t] = Advance(t, FALSE)]
    /\ UNCHANGED <<now, rules, samples, statuses, db_ok, is_running,
                   mqtt, obs, disp, effects, tz, probe, horizon, budget>>

\* _evaluate_rule after _execute_action returned: the firing is recorded
RecordFiring(t) ==
    /\ th[t].pc = "acting"
    /\ Awake(t)
    /\ th[t].todo = <<>>
    /\ last_evaluation' = [last_evaluation EXCEPT ![RuleOf(t)] = now]
    /\ th' = [th EXCEPT ![t] = Advance(t, FALSE)]
    /\ UNCHANGED <<now, rules, samples, statuses, db_ok, is_running,
                   mqtt, obs, disp, effects, tz, probe, horizon, budget>>

\* time passes until the next time.sleep of a thread ends
TimePasses ==
    LET pending == {th[t].wake : t \in {u \in Threads : Live(u) /\ ~Awake(u)}}
    IN  /\ pending # {}
        /\ now' = Min(pending)
        /\ UNCHANGED <<rules, samples, statuses, db_ok, is_running,
                       last_evaluation, mqtt, th, obs, disp, effects, tz, probe,
                       horizon, budget>>

NoObservation ==
    [thread |-> 0, rule |-> None, at |-> None, outcome |-> "none", reads |-> 0,
     T |-> None, entry |-> None, holds |-> FALSE, active |-> FALSE]

NoProbe == [pc |-> "none"]

\* the tables the rule API can have left in the database
Stores ==
    {[i \in RuleIds |-> IF st[i] = NoRow THEN NoRow ELSE [st[i] EXCEPT !.id = i]] :
        st \in [RuleIds -> {NoRow} \cup {NewRow(0, b) : b \in RuleBodies}]}

\* the engine and its surroundings before init_automation_engine runs: the
\* engine module was imported before init_mqtt_service ran, so its name
\* mqtt_service is bound to None
EngineInit ==
    /\ now = 0
    /\ samples = <<>>
    /\ statuses = [d \in {} |-> "online"]
    /\ db_ok = TRUE
    /\ is_running = FALSE
    /\ last_evaluation = [i \in RuleIds |-> None]
    /\ mqtt = [bound |-> FALSE, connected |-> FALSE]
    /\ th = [t \in Threads |-> IdleThread]
    /\ obs = NoObservation
    /\ disp = [i \in RuleIds |-> [prev |-> None, last |-> None, T |-> None]]
    /\ effects = <<>>
    /\ tz = 0
    /\ probe = NoProbe

\* init_automation_engine: the one call of start() that main.py makes
init_automation_engine == start(1)

Worker(t) ==
    \/ engine_loop_head(t, TRUE)
    \/ \E tie \in TieBreaks : EvaluateRule(t, tie)
    \/ \E http_ok \in BOOLEAN : ExecuteStep(t, http_ok)
    \/ RecordFiring(t)

(***************************************************************************)
(* Spec: the engine as main.py starts it, over a rule table that earlier   *)
(* requests left, with telemetry arriving.                                 *)
(***************************************************************************)
Init ==
    /\ EngineInit
    /\ rules \in Stores
    /\ horizon = MaxTime
    /\ budget = 0

Next ==
    \/ init_automation_engine
    \/ Worker(1)
    \/ TimePasses
    \/ handle_device_data("motion_001", "motion", 1)

Spec == Init /\ [][Next]_vars

(***************************************************************************)
(* SpecApi: the engine running while the rule API creates, edits,          *)
(* deactivates and deletes rules and the database comes and goes.          *)
(***************************************************************************)
InitApi ==
    /\ EngineInit
    /\ rules \in Stores
    /\ horizon = MaxApiTime
    /\ budget = MaxRequests

RuleApi ==
    \/ \E data \in RuleBodies : create_automation_rule(data)
    \/ \E rule_id \in RuleIds, data \in UpdateBodies :
          update_automation_rule(rule_id, data)
    \/ \E rule_id \in RuleIds : delete_automation_rule(rule_id)

NextApi ==
    \/ init_automation_engine
    \/ Worker(1)
    \/ TimePasses
    \/ RuleApi
    \/ DbFails

SpecApi == InitApi /\ [][NextApi]_vars

(***************************************************************************)
(* LiveSpec: the engine as main.py starts it, with stop() called at any    *)
(* moment, database outages and failing app_context() entries.  The thread *)
(* takes a step it can take (the interpreter schedules it) and time        *)
(* passes.                                                                 *)
(***************************************************************************)
InitLive ==
    /\ EngineInit
    /\ rules \in Stores
    /\ horizon = MaxLiveTime
    /\ budget = MaxOutages

NextLive ==
    \/ init_automation_engine
    \/ stop
    \/ Worker(1)
    \/ engine_loop_head(1, FALSE)
    \/ DbFails
    \/ TimePasses

LiveSpec ==
    /\ InitLive
    /\ [][NextLive]_vars
    /\ WF_vars(Worker(1))
    /\ WF_vars(TimePasses)

(***************************************************************************)
(* SpecThreads: start() and stop() called in any order on one engine,      *)
(* every start() creating a thread.                                        *)
(***************************************************************************)
PauseThenTurnOn ==
    [type |-> "sequence",
     actions |-> <<[type |-> "delay", delay_seconds |-> 3], TurnOn>>]

\* a table of two rules: the first raises when it is evaluated, the second
\* fires whenever its gate is open
LiveStore ==
    [i \in RuleIds |->
        IF i = 1 THEN NewRow(1, [trigger_device_id |-> "motion_001",
                                 trigger_condition |-> NonObject,
                                 action_device_id |-> "light_001",
                                 action_command |-> TurnOn])
        ELSE IF i = 2 THEN NewRow(2, [trigger_device_id |-> "",
                                      trigger_condition |-> IntervalCondition,
                                      action_device_id |-> "light_001",
                                      action_command |-> PauseThenTurnOn])
        ELSE NoRow]

InitThreads ==
    /\ EngineInit
    /\ rules = LiveStore
    /\ horizon = MaxLiveTime
    /\ budget = 0

NextThreads ==
    \/ \E t \in Threads : start(t)
    \/ stop
    \/ \E t \in Threads : Worker(t)
    \/ TimePasses

SpecThreads == InitThreads /\ [][NextThreads]_vars

(***************************************************************************)
(* SpecEval: _check_value_threshold called once on a DeviceData table that *)
(* the two ingestion paths can have left.  Both take the timestamp of a    *)
(* sample from the request when it carries one, so a row can be stamped    *)
(* later than the clock of the server.                                     *)
(***************************************************************************)
SampleRows ==
    {[device_id |-> "sensor_001", data_type |-> "temperature", value |-> v,
      timestamp |-> ts] :
        v \in {1, 2, 3}, ts \in {-301, -300, -60, 0, 60}}
    \cup {[device_id |-> "sensor_002", data_type |-> "temperature", value |-> 3,
           timestamp |-> 0],
          [device_id |-> "sensor_001", data_type |-> "humidity", value |-> 1,
           timestamp |-> 0]}

SampleTables == UNION {[1..n -> SampleRows] : n \in 0..MaxRows}

Operators == {"gt", "lt", "eq", "gte", "lte", "ne"}

ThresholdConditions ==
    {[type |-> "value_threshold", data_type |-> "temperature",
      operator |-> op, threshold |-> 2] : op \in Operators}
    \cup {[type |-> "value_threshold", data_type |-> "temperature",
           operator |-> op, threshold |-> 2, time_window_minutes |-> 1] :
              op \in Operators}

InitEval ==
    /\ now = 0
    /\ samples \in SampleTables
    /\ rules = [i \in RuleIds |-> NoRow]
    /\ statuses = [d \in {} |-> "online"]
    /\ db_ok = TRUE
    /\ is_running = FALSE
    /\ last_evaluation = [i \in RuleIds |-> None]
    /\ mqtt = [bound |-> FALSE, connected |-> FALSE]
    /\ th = [t \in Threads |-> IdleThread]
    /\ obs = NoObservation
    /\ disp = [i \in RuleIds |-> [prev |-> None, last |-> None, T |-> None]]
    /\ effects = <<>>
    /\ tz = 0
    /\ probe = NoProbe
    /\ horizon = 0
    /\ budget = 0

\* one call of _check_value_threshold
CheckValueThreshold ==
    /\ probe = NoProbe
    /\ \E condition \in ThresholdConditions, tie \in TieBreaks :
          probe' = [pc |-> "done", device_id |-> "sensor_001",
                    condition |-> condition,
                    result |-> check_value_threshold("sensor_001", condition,
                                                     tie).v]
    /\ UNCHANGED <<now, rules, samples, statuses, db_ok, is_running,
                   last_evaluation, mqtt, th, obs, disp, effects, tz, horizon,
                   budget>>

NextEval == CheckValueThreshold

SpecEval == InitEval /\ [][NextEval]_vars

(***************************************************************************)
(* SpecOutage: the engine as main.py starts it, with telemetry arriving    *)
(* and the database going away and coming back between any two steps,      *)
(* over a table of two rules: a composite OR of a telemetry condition and  *)
(* an interval condition, and the motion rule.                             *)
(***************************************************************************)
MotionOrInterval ==
    [type |-> "composite", operator |-> "OR", min_interval_seconds |-> 7,
     conditions |-> <<[type |-> "value_threshold", device_id |-> "motion_001",
                       data_type |-> "motion", operator |-> "eq",
                       threshold |-> 1],
                      [type |-> "time_based", time_type |-> "interval"]>>]

OutageStore ==
    [i \in RuleIds |->
        IF i = 1 THEN NewRow(1, [trigger_device_id |-> "motion_001",
                                 trigger_condition |-> MotionOrInterval,
                                 action_device_id |-> "light_001",
                                 action_command |-> TurnOn])
        ELSE IF i = 2 THEN NewRow(2, [trigger_device_id |-> "motion_001",
                                      trigger_condition |-> MotionCondition,
                                      action_device_id |-> "light_001",
                                      action_command |-> TurnOn])
        ELSE NoRow]

InitOutage ==
    /\ EngineInit
    /\ rules = OutageStore
    /\ horizon = MaxLiveTime
    /\ budget = MaxOutages

NextOutage ==
    \/ init_automation_engine
    \/ Worker(1)
    \/ TimePasses
    \/ DbFails
    \/ handle_device_data("motion_001", "motion", 1)

SpecOutage == InitOutage /\ [][NextOutage]_vars

(***************************************************************************)
(* SpecRows: the engine as main.py starts it, with telemetry arriving,     *)
(* over a table of two rules: one whose condition nests every type of      *)
(* node, and one whose action_command column holds text that is not JSON   *)
(* (the column is plain Text; the rule API itself only stores json.dumps   *)
(* output).                                                                *)
(***************************************************************************)
EveryType ==
    [type |-> "composite", operator |-> "AND", min_interval_seconds |-> 7,
     conditions |->
        <<[type |-> "value_threshold", device_id |-> "motion_001",
           data_type |-> "motion", operator |-> "eq", threshold |-> 1],
          [type |-> "value_change", device_id |-> "motion_001",
           data_type |-> "motion", change_type |-> "any", min_change |-> 0],
          [type |-> "device_status", device_id |-> "motion_001",
           status |-> "online"],
          [type |-> "time_based", time_type |-> "time_of_day",
           start_time |-> Clock(0, 0), end_time |-> Clock(23, 59)],
          [type |-> "composite", operator |-> "OR",
           conditions |-> <<[type |-> "time_based", time_type |-> "interval"]>>]>>]

RowsStore ==
    [i \in RuleIds |->
        IF i = 1 THEN NewRow(1, [trigger_device_id |-> "motion_001",
                                 trigger_condition |-> EveryType,
                                 action_device_id |-> "light_001",
                                 action_command |-> TurnOn])
        ELSE IF i = 2
        THEN [NewRow(2, [trigger_device_id |-> "",
                         trigger_condition |-> IntervalCondition,
                         action_device_id |-> "light_001",
                         action_command |-> TurnOn])
                 EXCEPT !.action_command = [text |-> "{"]]
        ELSE NoRow]

InitRows ==
    /\ EngineInit
    /\ rules = RowsStore
    /\ horizon = MaxTime
    /\ budget = 0

NextRows ==
    \/ init_automation_engine
    \/ Worker(1)
    \/ TimePasses
    \/ handle_device_data("motion_001", "motion", 1)

SpecRows == InitRows /\ [][NextRows]_vars

(***************************************************************************)
(* Direct calls of the evaluator: the engine at rest, the clock, the       *)
(* tables and the time zone as given.                                      *)
(***************************************************************************)
EvaluatorInit(time, table, devices, offset) ==
    /\ now = time
    /\ samples = table
    /\ statuses = devices
    /\ tz = offset
    /\ rules = [i \in RuleIds |-> NoRow]
    /\ db_ok = TRUE
    /\ is_running = FALSE
    /\ last_evaluation = [i \in RuleIds |-> None]
    /\ mqtt = [bound |-> FALSE, connected |-> FALSE]
    /\ th = [t \in Threads |-> IdleThread]
    /\ obs = NoObservation
    /\ disp = [i \in RuleIds |-> [prev |-> None, last |-> None, T |-> None]]
    /\ effects = <<>>
    /\ probe = NoProbe
    /\ horizon = 0
    /\ budget = 0

\* one call of _check_trigger_condition for a rule of device device_id
CheckTriggerCondition(device_id, condition) ==
    /\ probe = NoProbe
    /\ \E tie \in TieBreaks :
          probe' = [pc |-> "done", device_id |-> device_id,
                    condition |-> condition,
                    result |-> check_trigger_condition(device_id, condition,
                                                       tie).v]
    /\ UNCHANGED <<now, rules, samples, statuses, db_ok, is_running,
                   last_evaluation, mqtt, th, obs, disp, effects, tz, horizon,
                   budget>>

(***************************************************************************)
(* SpecComposite: _check_trigger_condition called once on a tree of        *)
(* composite conditions over two device_status leaves.                     *)
(***************************************************************************)
StatusLeaves ==
    {[type |-> "device_status", device_id |-> d, status |-> "online"] :
        d \in {"light_001", "lock_001"}}

RECURSIVE CompositeTrees(_)
\* the conditions nested at most depth deep, a composite having no or two
\* children
CompositeTrees(depth) ==
    IF depth = 0 THEN StatusLeaves
    ELSE LET below == CompositeTrees(depth - 1)
         IN  StatusLeaves
             \cup {[type |-> "composite", operator |-> op, conditions |-> subs] :
                      op \in {"AND", "OR"},
                      subs \in {<<>>} \cup {<<a, b>> : a \in below, b \in below}}

InitComposite ==
    EvaluatorInit(0, <<>>,
                  [d \in {"light_001", "lock_001"} |->
                      IF d = "light_001" THEN "online" ELSE "offline"], 0)

NextComposite ==
    /\ probe = NoProbe
    /\ \E condition \in {c \in CompositeTrees(MaxDepth) : c.type = "composite"} :
          CheckTriggerCondition("motion_001", condition)

SpecComposite == InitComposite /\ [][NextComposite]_vars

(***************************************************************************)
(* SpecTimeOfDay: _check_trigger_condition called once on a time_of_day    *)
(* condition, at a clock reading and in a time zone drawn at the start.    *)
(***************************************************************************)
ClockStrings ==
    {Clock(0, 0), Clock(2, 0), Clock(6, 0), Clock(12, 0), Clock(22, 0),
     Clock(23, 30), Clock(23, 59)}

\* seconds of the day at which the engine's clock is read
ClockReadings ==
    {0, 59, 3600, 2 * 3600, 6 * 3600 + 59, 6 * 3600 + 60, 12 * 3600, 22 * 3600 - 1,
     22 * 3600, 23 * 3600 + 1800, 86399}

TimeOfDayConditions ==
    {[type |-> "time_based", time_type |-> "time_of_day",
      start_time |-> a, end_time |-> b] :
        a \in ClockStrings, b \in ClockStrings}

InitTimeOfDay ==
    \E time \in ClockReadings, offset \in {-3600, 0, 3600} :
        EvaluatorInit(time, <<>>, <<>>, offset)

NextTimeOfDay ==
    /\ probe = NoProbe
    /\ \E condition \in TimeOfDayConditions :
          CheckTriggerCondition("motion_001", condition)

SpecTimeOfDay == InitTimeOfDay /\ [][NextTimeOfDay]_vars

(***************************************************************************)
(* SpecChange: _check_trigger_condition called once on a value_change      *)
(* condition of sensor_001, over a DeviceData table drawn at the start.    *)
(***************************************************************************)
ChangeRows ==
    {[device_id |-> "sensor_001", data_type |-> "temperature", value |-> v,
      timestamp |-> ts] :
        v \in {20, 21, 23}, ts \in {-601, -600, 0, 60}}
    \cup {[device_id |-> "sensor_001", data_type |-> "humidity", value |-> 23,
           timestamp |-> 0]}

ChangeConditions ==
    {[type |-> "value_change", data_type |-> "temperature",
      change_type |-> ct, min_change |-> 2] :
        ct \in {"increase", "decrease", "any"}}
    \cup {[type |-> "value_change", data_type |-> "temperature",
           change_type |-> ct, min_change |-> 2, time_window_minutes |-> 1] :
              ct \in {"increase", "decrease", "any"}}

InitChange ==
    \E table \in UNION {[1..n -> ChangeRows] : n \in 0..MaxChangeRows} :
        EvaluatorInit(0, table, <<>>, 0)

NextChange ==
    /\ probe = NoProbe
    /\ \E condition \in ChangeConditions :
          CheckTriggerCondition("sensor_001", condition)

SpecChange == InitChange /\ [][NextChange]_vars

(***************************************************************************)
(* SpecAct: _execute_action called once, for a rule whose action device is *)
(* light_001, on an action drawn from the menu; the calls of the           *)
(* _execute_* methods it leads to are then made one at a time.  The engine *)
(* module's name mqtt_service was bound when main.py imported the module,  *)
(* before init_mqtt_service ran, so it is unbound whatever the state of    *)
(* the MQTT client.                                                        *)
(***************************************************************************)
SubActions ==
    {[device_id |-> "lock_001", type |-> "device_command",
      command |-> [action |-> "lock"]],
     [type |-> "device_command", command |-> [action |-> "turn_on"]],
     [type |-> "webhook", url |-> "http://hook", method |-> "post"],
     [type |-> "webhook", url |-> "http://hook", method |-> "get"],
     [type |-> "webhook", url |-> "http://hook", method |-> "put"],
     [type |-> "webhook", url |-> "http://hook"],
     [type |-> "webhook", url |-> "http://hook", method |-> "<number>",
      mistyped |-> {"method"}],
     [type |-> "email"],
     [url |-> "http://hook", command |-> [action |-> "lock"]],
     [type |-> "notification", notification_type |-> "email", message |-> "m"],
     [type |-> "notification", message |-> "m"],
     NonObject}

Actions ==
    {a \in SubActions : IsObject(a)}
    \cup {[type |-> "sequence", actions |-> subs] :
             subs \in UNION {[1..n -> SubActions] : n \in 0..MaxSubActions}}

InitAct ==
    /\ now = 0
    /\ samples = <<>>
    /\ statuses = <<>>
    /\ tz = 0
    /\ rules = [i \in RuleIds |-> NoRow]
    /\ db_ok = TRUE
    /\ is_running = FALSE
    /\ last_evaluation = [i \in RuleIds |-> None]
    /\ mqtt \in {[bound |-> FALSE, connected |-> c] : c \in BOOLEAN}
    /\ th = [t \in Threads |-> IdleThread]
    /\ obs = NoObservation
    /\ disp = [i \in RuleIds |-> [prev |-> None, last |-> None, T |-> None]]
    /\ effects = <<>>
    /\ probe = NoProbe
    /\ horizon = 0
    /\ budget = 0

\* _execute_action is entered
ExecuteAction ==
    /\ probe = NoProbe
    /\ \E action \in Actions :
          probe' = [pc |-> "acting", device_id |-> "light_001",
                    action |-> action,
                    todo |-> execute_action("light_001", action),
                    calls |-> <<>>, did |-> <<>>]
    /\ UNCHANGED <<now, rules, samples, statuses, db_ok, is_running,
                   last_evaluation, mqtt, th, obs, disp, effects, tz, horizon,
                   budget>>

\* the next call of an _execute_* method, to its return
ExecuteCall(http_ok) ==
    /\ probe.pc = "acting"
    /\ probe.todo # <<>>
    /\ LET o == Head(probe.todo)
           did == execute_op(o, http_ok)
       IN  /\ o.op = "webhook" \/ http_ok
           /\ probe' = [probe EXCEPT !.todo = Tail(@),
                                     !.calls = Append(@, o),
                                     !.did = Append(@, did)]
           /\ now' = IF did # <<>> /\ did[1].kind = "sleep"
                     THEN now + did[1].seconds ELSE now
    /\ UNCHANGED <<rules, samples, statuses, db_ok, is_running,
                   last_evaluation, mqtt, th, obs, disp, effects, tz, horizon,
                   budget>>

\* _execute_action returns
ActionReturns ==
    /\ probe.pc = "acting"
    /\ probe.todo = <<>>
    /\ probe' = [probe EXCEPT !.pc = "done"]
    /\ UNCHANGED <<now, rules, samples, statuses, db_ok, is_running,
                   last_evaluation, mqtt, th, obs, disp, effects, tz, horizon,
                   budget>>

NextAct ==
    \/ ExecuteAction
    \/ \E http_ok \in BOOLEAN : ExecuteCall(http_ok)
    \/ ActionReturns

SpecAct == InitAct /\ [][NextAct]_vars

(***************************************************************************)
(* SpecConfig: _check_trigger_condition called once, for a rule of         *)
(* sensor_001, on a well-formed condition or on one of its misconfigured   *)
(* variants: a key left out, a key holding a value its use raises on, or a *)
(* discriminator outside the known ones.                                   *)
(***************************************************************************)
WellFormed ==
    {[type |-> "value_threshold", data_type |-> "temperature",
      operator |-> "gt", threshold |-> 2],
     [type |-> "value_change", data_type |-> "temperature",
      change_type |-> "increase", min_change |-> 2],
     [type |-> "time_based", time_type |-> "time_of_day",
      start_time |-> Clock(0, 0), end_time |-> Clock(23, 59)],
     [type |-> "time_based", time_type |-> "day_of_week", days |-> {0}],
     [type |-> "time_based", time_type |-> "interval"],
     [type |-> "device_status", status |-> "online"],
     [type |-> "composite", operator |-> "AND",
      conditions |-> <<[type |-> "device_status", device_id |-> "sensor_001",
                        status |-> "online"]>>]}

\* the condition without the key k
Without(c, k) == [j \in DOMAIN c \ {k} |-> c[j]]

\* the condition with a value under k that the use of k raises on
Wrong(c, k) ==
    [j \in DOMAIN c \cup {"mistyped"} |-> IF j = "mistyped" THEN {k} ELSE c[j]]

\* the condition with another value under k
With(c, k, v) == [j \in DOMAIN c |-> IF j = k THEN v ELSE c[j]]

Misconfigured ==
    UNION {{Without(c, k) : k \in DOMAIN c} \cup {Wrong(c, k) : k \in DOMAIN c}
           \cup {With(c, "type", v) : v \in {"Value_Threshold", "threshold"}}
           \cup {With(c, k, "ne") :
                    k \in DOMAIN c \cap {"operator", "change_type", "time_type"}} :
           c \in WellFormed}

InitConfig ==
    \E table \in {<<>>,
                  <<[device_id |-> "sensor_001", data_type |-> "temperature",
                     value |-> 20, timestamp |-> -60],
                    [device_id |-> "sensor_001", data_type |-> "temperature",
                     value |-> 23, timestamp |-> 0]>>},
       status \in {"online", "offline"} :
        EvaluatorInit(0, table, [d \in {"sensor_001"} |-> status], 0)

NextConfig ==
    /\ probe = NoProbe
    /\ \E condition \in WellFormed \cup Misconfigured :
          CheckTriggerCondition("sensor_001", condition)

SpecConfig == InitConfig /\ [][NextConfig]_vars

(***************************************************************************)
(* SpecCreate: one POST /automation/rules by an authorised user, to its    *)
(* response, over a rule table that earlier requests left.  A key the      *)
(* handler subscripts and the body lacks raises KeyError out of the view,  *)
(* which Flask answers with status 500.                                    *)
(***************************************************************************)
PostBodies ==
    LET full == [name |-> "rule", trigger_device_id |-> "motion_001",
                 trigger_condition |-> MotionCondition,
                 action_device_id |-> "light_001", action_command |-> TurnOn]
    IN  {full, [invalid |-> "data"]} \cup {Without(full, k) : k \in DOMAIN full}

\* create_automation_rule with its response
post_automation_rule(data) ==
    /\ probe = NoProbe
    /\ db_ok
    /\ IF {"name", "trigger_device_id", "trigger_condition", "action_device_id",
           "action_command"} \subseteq DOMAIN data
       THEN /\ next_rule_id \in RuleIds
            /\ rules' = [rules EXCEPT ![next_rule_id] = NewRow(next_rule_id, data)]
            /\ probe' = [pc |-> "done", body |-> data, before |-> rules,
                         status |-> 201]
       ELSE /\ rules' = rules
            /\ probe' = [pc |-> "done", body |-> data, before |-> rules,
                         status |-> 500]
    /\ UNCHANGED <<now, samples, statuses, db_ok, is_running, last_evaluation,
                   mqtt, th, obs, disp, effects, tz, horizon, budget>>

InitCreate ==
    /\ EngineInit
    /\ rules \in Stores
    /\ horizon = 0
    /\ budget = 0

NextCreate == \E data \in PostBodies : post_automation_rule(data)

SpecCreate == InitCreate /\ [][NextCreate]_vars

(***************************************************************************)
(* SpecInterval: the engine over rules whose trigger is an interval        *)
(* condition without last_trigger, with and without interval_minutes and   *)
(* min_interval_seconds, each with a device command as its action.         *)
(***************************************************************************)
IntervalConditions ==
    LET base == [type |-> "time_based", time_type |-> "interval"]
        with(c, k, v) == [x \in DOMAIN c \cup {k} |-> IF x = k THEN v ELSE c[x]]
        minutes == {base} \cup {with(base, "interval_minutes", m) : m \in {1, 60}}
    IN  minutes \cup {with(c, "min_interval_seconds", 7) : c \in minutes}

InitInterval ==
    /\ EngineInit
    /\ \E st \in [RuleIds -> IntervalConditions] :
          rules = [i \in RuleIds |->
                      NewRow(i, [trigger_device_id |-> "",
                                 trigger_condition |-> st[i],
                                 action_device_id |-> "light_001",
                                 action_command |-> TurnOn])]
    /\ horizon = MaxTime
    /\ budget = 0

NextInterval ==
    \/ init_automation_engine
    \/ Worker(1)
    \/ TimePasses

SpecInterval == InitInterval /\ [][NextInterval]_vars

(***************************************************************************)
(* SpecFresh: the engine over one interval rule while requests delete a    *)
(* rule and create one, and while the server process is started again.     *)
(* A new process has a new AutomationEngine, whose map is empty, and none  *)
(* of the old process's threads.                                           *)
(***************************************************************************)
\* the server process ends and main.py runs again up to the construction of
\* the AutomationEngine
AutomationEngine_init ==
    /\ budget > 0
    /\ budget' = budget - 1
    /\ \E t \in Threads : Live(t)
    /\ is_running' = FALSE
    /\ last_evaluation' = [i \in RuleIds |-> None]
    /\ th' = [t \in Threads |-> IdleThread]
    /\ UNCHANGED <<now, rules, samples, statuses, db_ok, mqtt, obs, disp,
                   effects, tz, probe, horizon>>

InitFresh ==
    /\ EngineInit
    /\ rules = [i \in RuleIds |->
                   IF i = 1
                   THEN NewRow(1, [trigger_device_id |-> "",
                                   trigger_condition |-> IntervalCondition,
                                   action_device_id |-> "light_001",
                                   action_command |-> TurnOn])
                   ELSE NoRow]
    /\ horizon = MaxLiveTime
    /\ budget = MaxRequests

NextFresh ==
    \/ init_automation_engine
    \/ Worker(1)
    \/ TimePasses
    \/ \E rule_id \in RuleIds : delete_automation_rule(rule_id)
    \/ \E data \in PostBodies : post_automation_rule(data)
    \/ AutomationEngine_init

SpecFresh == InitFresh /\ [][NextFresh]_vars

(***************************************************************************)
(* SpecChildren: _check_trigger_condition called once, for a rule of       *)
(* sensor_001 or of sensor_002, on a composite whose children declare      *)
(* sensor_001, sensor_002 or no device; only sensor_001 has telemetry.     *)
(***************************************************************************)
Children ==
    LET bare == {[type |-> "value_threshold", data_type |-> "temperature",
                  operator |-> "gt", threshold |-> 2],
                 [type |-> "value_change", data_type |-> "temperature",
                  change_type |-> "increase", min_change |-> 2],
                 [type |-> "device_status", status |-> "online"]}
    IN  bare
        \cup {[k \in DOMAIN c \cup {"device_id"} |->
                  IF k = "device_id" THEN d ELSE c[k]] :
                 c \in bare, d \in {"sensor_001", "sensor_002"}}
        \cup {[type |-> "time_based", time_type |-> "interval"]}

InitChildren ==
    \E table \in {<<>>,
                  <<[device_id |-> "sensor_001", data_type |-> "temperature",
                     value |-> 20, timestamp |-> -60],
                    [device_id |-> "sensor_001", data_type |-> "temperature",
                     value |-> 23, timestamp |-> 0]>>},
       status \in {"online", "offline"} :
        EvaluatorInit(0, table,
                      [d \in {"sensor_001", "sensor_002"} |->
                          IF d = "sensor_001" THEN status ELSE "offline"], 0)

NextChildren ==
    /\ probe = NoProbe
    /\ \E device_id \in {"sensor_001", "sensor_002"}, op \in {"AND", "OR"},
          subs \in {<<a>> : a \in Children}
                   \cup {<<a, b>> : a \in Children, b \in Children} :
          CheckTriggerCondition(device_id,
                                [type |-> "composite", operator |-> op,
                                 conditions |-> subs])

SpecChildren == InitChildren /\ [][NextChildren]_vars

(***************************************************************************)
(* Properties of Spec.                                                     *)
(***************************************************************************)
\* the min_interval_seconds of a stored row, None when _evaluate_rule cannot
\* read one
IntervalOf(row) ==
    LET c == row.trigger_condition
    IN  IF ~Has(c, "json") THEN None
        ELSE IF ~IsObject(c.json) THEN None
        ELSE IF Mistyped(c.json, "min_interval_seconds") THEN None
        ELSE IF Has(c.json, "min_interval_seconds")
             THEN c.json.min_interval_seconds
        ELSE 30

\* the thread is about to call _evaluate_rule for a row whose last recorded
\* firing is less than its min_interval_seconds ago
GateClosed(t) ==
    LET row == th[t].snapshot[th[t].idx]
    IN  /\ th[t].pc = "rule"
        /\ IntervalOf(row) # None
        /\ last_evaluation[row.id] # None
        /\ now - last_evaluation[row.id] < IntervalOf(row)

\* thread t takes a step of its own (stop only marks the tick it interrupts)
Steps(t) == [th'[t] EXCEPT !.tick.stopped = None] # [th[t] EXCEPT !.tick.stopped = None]

\* two consecutive dispatches of a rule are at least T apart, T being the
\* min_interval_seconds the second one was gated with
DispatchesApart ==
    \A r \in RuleIds :
        disp[r].prev # None => disp[r].last - disp[r].prev >= disp[r].T

\* C1 as claimed: dispatches of a rule are never less than T apart, and a
\* rule whose condition holds in a tick at least T seconds after its last
\* firing, the moment its action was dispatched, is dispatched in that tick
\* (so a rule that a tick skips had its action dispatched less than T ago)
C1_AsClaimed ==
    /\ DispatchesApart
    /\ (obs.outcome = "gated" /\ obs.holds)
          => obs.at - disp[obs.rule].last < obs.T

\* C1 amended: dispatches of a rule are never less than T apart (T is 30
\* when the key is absent); a tick skips the rule only while fewer than T
\* seconds have passed since the recorded firing time, which is the moment
\* the action finished; and a tick in which at least T seconds have passed
\* since then, or no firing is recorded, and the condition holds dispatches
\* the action
C1_RateLimit ==
    /\ DispatchesApart
    /\ obs.outcome = "gated"
          => obs.entry # None /\ obs.at - obs.entry < obs.T
    /\ (obs.outcome \in {"gated", "false", "fired"} /\ obs.holds
        /\ (obs.entry = None \/ obs.at - obs.entry >= obs.T))
          => obs.outcome = "fired" /\ disp[obs.rule].last = obs.at
    /\ \A r \in RuleIds :
          (Exists(r) /\ disp[r].last # None)
             => disp[r].T = IntervalOf(rules[r])

\* a rule without the key was dispatched, skipped, and dispatched again 30
\* seconds later
C1_Witness ==
    \E r \in RuleIds :
        /\ disp[r].prev # None
        /\ disp[r].T = 30
        /\ disp[r].last - disp[r].prev = 30
        /\ ~Has(rules[r].trigger_condition.json, "min_interval_seconds")

\* C2: a call of _evaluate_rule for a rule whose last recorded firing is
\* less than min_interval_seconds ago reads neither telemetry nor device
\* status, executes no action and leaves the fire-state map as it is
C2_PreFilter ==
    [][\A t \in Threads :
          (GateClosed(t) /\ Steps(t))
             => /\ obs'.outcome = "gated"
                /\ obs'.reads = 0
                /\ th'[t].pc # "acting"
                /\ last_evaluation' = last_evaluation
                /\ disp' = disp
                /\ effects' = effects]_vars

\* a rule whose condition reads telemetry and holds was skipped by the gate
C2_Witness ==
    /\ obs.outcome = "gated"
    /\ obs.holds
    /\ obs.reads = 0
    /\ Exists(obs.rule)
    /\ rules[obs.rule].trigger_condition.json.type = "value_threshold"

\* a call of the action being executed failed
FailedEffect(e) ==
    \/ e.did.kind \in {"mqtt_unavailable", "delay_error", "unknown_type"}
    \/ e.did.kind = "http" /\ ~e.did.ok

\* C3: once a rule's condition evaluated true, the thread stays with that
\* rule until the action has been executed and, when it moves on, the
\* rule's fire-state entry is the current time, whatever the calls of the
\* action did
C3_FiringRecorded ==
    [][\A t \in Threads :
          /\ (th[t].pc = "rule" /\ Steps(t) /\ obs'.outcome = "fired")
                => th'[t].pc = "acting" /\ th'[t].idx = th[t].idx
          /\ (th[t].pc = "acting" /\ Steps(t))
                => \/ /\ th'[t].pc = "acting"
                      /\ th'[t].idx = th[t].idx
                      /\ th'[t].snapshot = th[t].snapshot
                   \/ /\ th[t].todo = <<>>
                      /\ last_evaluation'[RuleOf(t)] = now]_vars

\* the action of a rule hit an unavailable command channel, a failing HTTP
\* call, an unknown type and a failing delay, and the firing was recorded
C3_Witness ==
    \E r \in RuleIds :
        /\ \A kind \in {"mqtt_unavailable", "delay_error", "unknown_type", "http"} :
              \E k \in 1..Len(effects) :
                  /\ effects[k].rule = r
                  /\ effects[k].did.kind = kind
                  /\ FailedEffect(effects[k])
        /\ last_evaluation[r] # None
        /\ \A k \in 1..Len(effects) :
              effects[k].rule = r => effects[k].at <= last_evaluation[r]
        /\ \A t \in Threads : ~(th[t].pc = "acting")

RECURSIVE SortedIds(_)
SortedIds(S) == IF S = {} THEN <<>> ELSE <<Min(S)>> \o SortedIds(S \ {Min(S)})

\* C5: in a tick whose query returned rows r1..rn, _evaluate_rule is called
\* for r1..rn in turn, whatever exception an earlier call ended with: while
\* the tick runs the calls made are those before the current position, and
\* when it has ended they are all of r1..rn
C5_FailureIsolation ==
    \A t \in Threads :
        th[t].tick.fetch = "ok"
           => IF InTick(t)
              THEN th[t].tick.done = SubSeq(SortedIds(th[t].tick.active), 1,
                                            th[t].idx - 1)
              ELSE th[t].tick.done = SortedIds(th[t].tick.active)

\* a tick ended in which the first rule raised (its condition is not an
\* object) and the second was evaluated and fired
C5_Witness ==
    \E t \in Threads :
        /\ th[t].pc = "head"
        /\ th[t].tick.done = <<1, 2>>
        /\ Exists(1)
        /\ ~IsObject(rules[1].trigger_condition.json)
        /\ obs.rule = 2
        /\ obs.outcome = "fired"

(***************************************************************************)
(* Properties of SpecApi.                                                  *)
(***************************************************************************)
\* the rule an evaluation or an executing action belongs to is active in
\* the store at that moment
ActiveNow ==
    /\ obs.rule # None => obs.active
    /\ \A t \in Threads : th[t].pc = "acting" => StoreActive(RuleOf(t))

\* C4 as claimed: no rule is evaluated, and no rule's action is executing,
\* while its is_active flag in the store is false or its row is deleted,
\* a PUT or DELETE that commits during the tick included
C4_AsClaimed == ActiveNow

\* C4 amended: a rule that is inactive or absent in the store when a tick
\* fetches its rows is neither evaluated nor has its action executed in
\* that tick, under every interleaving of the API with the tick; the rows
\* the tick fetched are all processed, whatever commits afterwards
C4_InactiveNotEvaluated ==
    \A t \in Threads :
        /\ InTick(t) => RuleOf(t) \in th[t].tick.active
        /\ \A k \in 1..Len(th[t].tick.done) :
              th[t].tick.done[k] \in th[t].tick.active
        /\ (Live(t) /\ th[t].tick.at # None)
              => \A k \in 1..Len(effects) : effects[k].rule \in th[t].tick.active
        /\ (th[t].tick.fetch = "ok" /\ ~InTick(t))
              => th[t].tick.done = SortedIds(th[t].tick.active)

\* a tick ended that found an inactive row beside an active one and
\* evaluated only the latter
C4_Witness ==
    \E t \in Threads :
        /\ th[t].pc = "head"
        /\ th[t].tick.fetch = "ok"
        /\ th[t].tick.inactive # {}
        /\ th[t].tick.done # <<>>
        /\ obs.at = th[t].tick.at
        /\ obs.rule \notin th[t].tick.inactive

\* every tick that ended made exactly one _evaluate_rule call for each rule
\* that was active when it began
EveryTickProcessesAll ==
    \A t \in Threads :
        (th[t].tick.at # None /\ ~InTick(t))
           => th[t].tick.done = SortedIds(th[t].tick.active)

\* C9 as claimed: every tick re-reads the active rules and evaluates each
\* of them once with its committed definition
C9_AsClaimed == EveryTickProcessesAll

\* the row of the tick's fetch with the given id
FetchedRow(t, rule_id) == CHOOSE row \in th[t].tick.rows : row.id = rule_id

\* C9 amended: every tick whose query succeeds reads the rows with
\* is_active true as they are committed at that moment, nothing carried over
\* from an earlier tick, so a rule created, edited, activated, deactivated
\* or deleted is evaluated with its committed definition, or not at all, in
\* every such tick that starts after the commit; each row read is evaluated
\* once in that tick (a tick whose query fails evaluates nothing)
C9_LevelTriggered ==
    [][\A t \in Threads :
          /\ (th[t].pc = "head" /\ Steps(t) /\ th'[t].tick.fetch = "ok"
              /\ th'[t].tick # th[t].tick)
                => LET fetched == IF th'[t].pc = "rule" THEN th'[t].snapshot
                                  ELSE <<>>
                   IN  /\ {fetched[k] : k \in 1..Len(fetched)}
                            = {rules[i] : i \in {j \in RuleIds :
                                    rules[j].id # None /\ rules[j].is_active}}
                       /\ \A j, k \in 1..Len(fetched) :
                             j < k => fetched[j].id < fetched[k].id
          /\ (th[t].pc = "rule" /\ Steps(t))
                => /\ obs'.rule = th[t].snapshot[th[t].idx].id
                   /\ obs'.outcome # "error"
                         => obs'.T = IntervalOf(FetchedRow(t, obs'.rule))
          /\ (InTick(t) /\ Steps(t) /\ ~InTick(t)')
                => th'[t].tick.done = SortedIds(th[t].tick.active)]_vars

\* the motion rule was edited through the API to the interval condition and
\* the next tick evaluated it as such and fired it
C9_Witness ==
    /\ obs.outcome = "fired"
    /\ obs.T = 7
    /\ obs.at > 0
    /\ Exists(obs.rule)
    /\ rules[obs.rule].trigger_device_id = "motion_001"
    /\ rules[obs.rule].trigger_condition = json_dumps(IntervalCondition)

(***************************************************************************)
(* Properties of LiveSpec.                                                 *)
(***************************************************************************)
Exited(t) == th[t].pc = "exited"

\* C6: is_running is read only between ticks: a thread leaves _engine_loop
\* only from the test at the head of the loop, finding the flag false, and
\* begins no tick while it is false; a tick during which stop() was called
\* still evaluates every row left in its snapshot and executes every call
\* of their actions before it ends; and if from some moment on the flag
\* stays false (stop() with no later start()), every thread eventually has
\* left the loop
C6_StopSemantics ==
    /\ [][\A t \in Threads :
             /\ (~Exited(t) /\ Exited(t)')
                   => th[t].pc = "head" /\ ~is_running
             /\ (th[t].pc = "head" /\ Steps(t) /\ ~is_running) => Exited(t)'
             /\ (th[t].pc = "acting" /\ Steps(t) /\ th[t].todo # <<>>)
                   => /\ th'[t].pc = "acting"
                      /\ th'[t].todo = Tail(th[t].todo)
                      /\ th'[t].idx = th[t].idx
             /\ (th[t].tick.stopped # None /\ InTick(t) /\ Steps(t)
                 /\ ~InTick(t)')
                   => /\ th'[t].tick.done = SortedIds(th[t].tick.active)
                      /\ th'[t].pc = "head"]_vars
    /\ <>[](~is_running) => <>[](\A t \in Threads : ~Live(t))

\* stop() was called after the first rule of a tick had been evaluated, the
\* tick went on to the second rule and executed its action, and the thread
\* then left the loop
C6_Witness ==
    \E t \in Threads :
        /\ Exited(t)
        /\ th[t].tick.stopped = 1
        /\ th[t].tick.done = <<1, 2>>
        /\ \E k \in 1..Len(effects) : effects[k].rule = 2
        /\ last_evaluation[2] # None

\* C7 as claimed: whatever start() and stop() calls are made, at most one
\* thread is in _engine_loop, and no rule has its action executing in two
\* threads at once
C7_SingleWorker ==
    /\ Cardinality({t \in Threads : Live(t)}) <= 1
    /\ \A t, u \in Threads :
          (t # u /\ th[t].pc = "acting" /\ th[u].pc = "acting")
             => RuleOf(t) # RuleOf(u)

\* C8: a thread leaves _engine_loop only when is_running is false, whatever
\* failed before; a tick whose query fails makes no _evaluate_rule call,
\* executes nothing and leaves last_evaluation as it is; and after such a
\* tick the thread begins another one, unless it has been stopped (ticks
\* that would begin after the model's horizon excepted)
C8_LoopSurvives ==
    /\ [][\A t \in Threads :
             /\ (~Exited(t) /\ Exited(t)') => ~is_running
             /\ (th[t].pc = "head" /\ Steps(t)
                 /\ th'[t].tick.fetch \in {"failed", "ctx"}
                 /\ th'[t].tick # th[t].tick)
                   => /\ obs' = obs
                      /\ last_evaluation' = last_evaluation
                      /\ disp' = disp
                      /\ \A k \in 1..Len(effects') :
                            k <= Len(effects) /\ effects'[k] = effects[k]
                      /\ th'[t].tick.done = <<>>
                      /\ th'[t].pc = "head"]_vars
    /\ \A t \in Threads : \A odd \in BOOLEAN :
          [](( /\ th[t].tick.fetch \in {"failed", "ctx"}
               /\ th[t].tick.odd = odd
               /\ th[t].wake <= horizon)
             => <>(Exited(t) \/ th[t].tick.odd # odd))

\* a tick whose query failed was followed by a tick that evaluated and fired
\* a rule, the engine still running
C8_Witness ==
    \E t \in Threads :
        /\ th[t].tick.fetch = "ok"
        /\ th[t].tick.after = "failed"
        /\ th[t].tick.at >= evaluation_interval
        /\ obs.thread = t
        /\ obs.at = th[t].tick.at
        /\ obs.outcome = "fired"
        /\ is_running

(***************************************************************************)
(* Properties of SpecEval.                                                 *)
(***************************************************************************)
\* the minutes of the window of a condition
WindowOf(condition) ==
    IF "time_window_minutes" \in DOMAIN condition
    THEN condition.time_window_minutes ELSE 5

\* the rows of (device_id, data_type) stamped from..to
RowsBetween(device_id, data_type, from, to) ==
    {i \in 1..Len(samples) :
        /\ samples[i].device_id = device_id
        /\ samples[i].data_type = data_type
        /\ from <= samples[i].timestamp
        /\ samples[i].timestamp <= to}

\* v op threshold
Holds(op, v, threshold) ==
    \/ op = "gt" /\ v > threshold
    \/ op = "lt" /\ v < threshold
    \/ op = "eq" /\ v = threshold
    \/ op = "gte" /\ v >= threshold
    \/ op = "lte" /\ v <= threshold

\* the result is v op threshold for the value v of a newest row of S, and
\* false when S is empty
ComparesNewest(S) ==
    IF S = {} THEN probe.result = FALSE
    ELSE \E i \in S :
            /\ \A j \in S : samples[j].timestamp <= samples[i].timestamp
            /\ probe.result = Holds(probe.condition.operator, samples[i].value,
                                    probe.condition.threshold)

\* C10: for the operators gt, lt, eq, gte and lte the result of
\* _check_value_threshold is v op threshold, v being the value of the newest
\* sample of (device_id, data_type) stamped within the trailing
\* time_window_minutes (5 by default), the minutes that end now
C10_ThresholdSemantics ==
    (probe.pc = "done" /\ probe.condition.operator # "ne")
       => ComparesNewest(RowsBetween(probe.device_id, probe.condition.data_type,
                                     now - 60 * WindowOf(probe.condition), now))

(***************************************************************************)
(* Further properties of Spec.                                             *)
(***************************************************************************)
\* the row's condition is a value_threshold and the DeviceData table holds
\* no row of its device and data type stamped in its window (the
\* time_window_minutes, 5 by default, before now)
NoSampleFor(row) ==
    LET c == row.trigger_condition
    IN  /\ "json" \in DOMAIN c
        /\ "nonobject" \notin DOMAIN c.json
        /\ "type" \in DOMAIN c.json
        /\ c.json.type = "value_threshold"
        /\ ~\E i \in 1..Len(samples) :
              /\ samples[i].device_id = row.trigger_device_id
              /\ samples[i].data_type = c.json.data_type
              /\ samples[i].timestamp >= now - 60 * WindowOf(c.json)

\* C11: a call of _evaluate_rule for a value_threshold rule whose device has
\* no sample of the data type in the window ends without an exception and
\* with the condition false: no action is started and the fire-state map is
\* unchanged; and every tick that begins reads the rule again, so it is
\* evaluated again at the next tick
C11_AbsenceTolerance ==
    [][\A t \in Threads :
          /\ (th[t].pc = "rule" /\ Steps(t)
              /\ NoSampleFor(th[t].snapshot[th[t].idx]))
                => /\ obs'.rule = th[t].snapshot[th[t].idx].id
                   /\ obs'.outcome \in {"false", "gated"}
                   /\ ~obs'.holds
                   /\ th'[t].pc # "acting"
                   /\ last_evaluation' = last_evaluation
                   /\ disp' = disp
                   /\ effects' = effects
          /\ (th[t].pc = "head" /\ Steps(t) /\ th'[t].tick.fetch = "ok"
              /\ th'[t].tick # th[t].tick)
                => \A i \in RuleIds :
                      (rules[i].id # None /\ rules[i].is_active)
                         => /\ th'[t].pc = "rule"
                            /\ \E k \in 1..Len(th'[t].snapshot) :
                                  th'[t].snapshot[k].id = i]_vars

\* the motion rule was evaluated with no sample in the table, one read
\* made, in a second tick as in the first, and has never fired
C11_Witness ==
    /\ obs.outcome = "false"
    /\ obs.reads = 1
    /\ obs.at >= 5
    /\ samples = <<>>
    /\ Exists(obs.rule)
    /\ rules[obs.rule].trigger_condition.json.type = "value_threshold"
    /\ last_evaluation[obs.rule] = None
    /\ \E t \in Threads : th[t].tick.after = "ok" /\ th[t].tick.at = obs.at

(***************************************************************************)
(* Properties of SpecComposite.                                            *)
(***************************************************************************)
RECURSIVE Reference(_)
\* the value of a condition tree: a device_status leaf by the Device table,
\* a composite as the conjunction or disjunction of its children
Reference(c) ==
    IF c.type = "device_status"
    THEN c.device_id \in DOMAIN statuses /\ statuses[c.device_id] = c.status
    ELSE IF c.operator = "AND"
    THEN \A k \in 1..Len(c.conditions) : Reference(c.conditions[k])
    ELSE \E k \in 1..Len(c.conditions) : Reference(c.conditions[k])

\* C12: the result of _check_trigger_condition on a composite is the
\* conjunction (AND) or disjunction (OR) of the values of its children,
\* true for AND and false for OR over no children, composites nested in
\* composites included
C12_CompositeLogic ==
    probe.pc = "done" => probe.result = Reference(probe.condition)

\* an AND of an empty AND and an OR over [false, true] was evaluated true
C12_Witness ==
    /\ probe.pc = "done"
    /\ probe.result
    /\ probe.condition.type = "composite"
    /\ probe.condition.operator = "AND"
    /\ Len(probe.condition.conditions) = 2
    /\ probe.condition.conditions[1] =
          [type |-> "composite", operator |-> "AND", conditions |-> <<>>]
    /\ probe.condition.conditions[2].type = "composite"
    /\ probe.condition.conditions[2].operator = "OR"
    /\ ~Reference(probe.condition.conditions[2].conditions[1])
    /\ Reference(probe.condition.conditions[2].conditions[2])

(***************************************************************************)
(* Properties of SpecTimeOfDay.                                            *)
(***************************************************************************)
\* the minute of the day an "HH:MM" string names
MinuteOf(s) == (s[1] * 10 + s[2]) * 60 + s[4] * 10 + s[5]

\* the minute of the day of the local clock
LocalMinute == ((now + tz) \div 60) % 1440

\* C13: a time_of_day condition is true iff start <= now <= end when
\* start <= end, and iff now >= start or now <= end when start > end, the
\* three being times of day to the minute and both ends inclusive
C13_TimeOfDayWindow ==
    probe.pc = "done" =>
        LET from == MinuteOf(probe.condition.start_time)
            to == MinuteOf(probe.condition.end_time)
        IN  probe.result =
                IF from <= to
                THEN from <= LocalMinute /\ LocalMinute <= to
                ELSE LocalMinute >= from \/ LocalMinute <= to

\* 22:00 to 06:00 was evaluated true at 02:00 local time
C13_Witness ==
    /\ probe.pc = "done"
    /\ probe.condition.start_time = Clock(22, 0)
    /\ probe.condition.end_time = Clock(6, 0)
    /\ LocalMinute = 120
    /\ tz # 0
    /\ probe.result

(***************************************************************************)
(* Properties of SpecChange.                                               *)
(***************************************************************************)
\* the rows of (device_id, data_type) the window of the probed condition
\* holds: those stamped no earlier than the window's length before now
InWindow ==
    {i \in 1..Len(samples) :
        /\ samples[i].device_id = probe.device_id
        /\ samples[i].data_type = probe.condition.data_type
        /\ samples[i].timestamp >=
              now - 60 * (IF "time_window_minutes" \in DOMAIN probe.condition
                          THEN probe.condition.time_window_minutes ELSE 10)}

\* a is a newest row of the window and b a newest of the others
NewestTwo(a, b) ==
    /\ a \in InWindow /\ b \in InWindow \ {a}
    /\ \A i \in InWindow : samples[i].timestamp <= samples[a].timestamp
    /\ \A i \in InWindow \ {a} : samples[i].timestamp <= samples[b].timestamp

Changed(change_type, delta, min_change) ==
    CASE change_type = "increase" -> delta >= min_change
      [] change_type = "decrease" -> delta <= 0 - min_change
      [] change_type = "any" -> delta >= min_change \/ 0 - delta >= min_change

\* C14: a value_change condition is false with fewer than two samples of
\* (device_id, data_type) in the window (10 minutes by default); otherwise
\* it is the comparison of delta = newest.value - secondNewest.value with
\* min_change that its change_type names, newest and secondNewest by
\* timestamp (either order of two rows with the same timestamp)
C14_ValueChange ==
    probe.pc = "done" =>
        IF Cardinality(InWindow) < 2 THEN ~probe.result
        ELSE \E a \in InWindow, b \in InWindow :
                /\ NewestTwo(a, b)
                /\ probe.result =
                      Changed(probe.condition.change_type,
                              samples[a].value - samples[b].value,
                              probe.condition.min_change)

\* samples 20 then 23 with increase and min_change 2 were evaluated true
C14_Witness ==
    /\ probe.pc = "done"
    /\ probe.result
    /\ probe.condition.change_type = "increase"
    /\ "time_window_minutes" \notin DOMAIN probe.condition
    /\ Len(samples) = 3
    /\ samples[1].timestamp = 0 /\ samples[1].value = 23
    /\ samples[2].timestamp = -600 /\ samples[2].value = 20
    /\ samples[3].timestamp = -601 /\ samples[3].value = 23
    /\ InWindow = {1, 2}

(***************************************************************************)
(* Properties of SpecAct.                                                  *)
(***************************************************************************)
\* the action _execute_action was called on is a sequence
SequenceProbed ==
    "type" \in DOMAIN probe.action /\ probe.action.type = "sequence"

\* the device id a sub-action entry declares
Declared(entry) ==
    IF "device_id" \in DOMAIN entry THEN entry.device_id ELSE NoDevice

RECURSIVE Attempts(_)
\* the sub-actions of a list that can be attempted, in listed order, each
\* with the device id it declares
Attempts(actions) ==
    IF actions = <<>> THEN <<>>
    ELSE (IF IsObject(Head(actions))
          THEN <<[device_id |-> Declared(Head(actions)), action |-> Head(actions)]>>
          ELSE <<>>)
         \o Attempts(Tail(actions))

\* C15: when a sequence action has been executed, each of its sub-actions
\* was attempted exactly once, in listed order and against the device id it
\* declares, whatever became of the sub-actions before it, a malformed
\* entry among them included
C15_SequenceBestEffort ==
    (probe.pc = "done" /\ SequenceProbed) =>
        [k \in 1..Len(probe.calls) |->
            [device_id |-> probe.calls[k].device_id,
             action |-> probe.calls[k].action]]
        = Attempts(probe.action.actions)

\* C16: with the MQTT client connected, each execution of a device_command
\* action for a device publishes the action's command map, unchanged, once
\* to devices/<device>/commands
C16_CommandDelivery ==
    (probe.pc # "none" /\ mqtt.connected) =>
        \A k \in 1..Len(probe.calls) :
            probe.calls[k].op = "device_command" =>
                probe.did[k] =
                    <<[kind |-> "publish",
                       topic |-> <<"devices", probe.calls[k].device_id,
                                   "commands">>,
                       payload |-> [json |-> probe.calls[k].action.command]]>>

\* the HTTP call the webhook action a is to make, ok saying whether it
\* returned: a POST (also when no method is given) with the payload as
\* JSON, a GET with the payload as query parameters, none otherwise
Webhook(a, ok) ==
    LET method == IF "method" \in DOMAIN a THEN a.method ELSE "POST"
    IN  IF method \in {"POST", "post"}
        THEN <<[kind |-> "http", call |-> "post", sent |-> "json", ok |-> ok]>>
        ELSE IF method \in {"GET", "get"}
        THEN <<[kind |-> "http", call |-> "get", sent |-> "params", ok |-> ok]>>
        ELSE <<>>

\* C19: each execution of a webhook action makes at most one HTTP call, a
\* POST with the payload as JSON when the method is POST, a GET with the
\* payload as query parameters when it is GET and none for another method;
\* whether or not the call fails, the sub-actions after it are executed and
\* the action returns
C19_Webhook ==
    /\ probe.pc # "none" =>
          \A k \in 1..Len(probe.calls) :
              probe.calls[k].op = "webhook" =>
                  /\ Len(probe.did[k]) <= 1
                  /\ \E ok \in BOOLEAN :
                        probe.did[k] = Webhook(probe.calls[k].action, ok)
    /\ (/\ probe.pc = "done"
        /\ SequenceProbed
        /\ \A k \in 1..Len(probe.action.actions) :
               IsObject(probe.action.actions[k]))
          => Len(probe.calls) = Len(probe.action.actions)

\* a sequence was executed to its end whose first sub-action is a webhook
\* POST that failed and whose second is a webhook GET
C19_Witness ==
    /\ probe.pc = "done"
    /\ Len(probe.calls) = 2
    /\ probe.did[1] = <<[kind |-> "http", call |-> "post", sent |-> "json",
                         ok |-> FALSE]>>
    /\ probe.did[2] = <<[kind |-> "http", call |-> "get", sent |-> "params",
                         ok |-> TRUE]>>

(***************************************************************************)
(* Properties of SpecConfig.                                               *)
(***************************************************************************)
\* the condition gives no usable value under the key
Bad(c, k) == k \notin DOMAIN c \/ ("mistyped" \in DOMAIN c /\ k \in c.mistyped)

\* the configuration errors that leave no default to fall back on
MustBeFalse(c) ==
    \/ Bad(c, "type")
    \/ c.type \notin {"value_threshold", "value_change", "time_based",
                      "device_status", "composite"}
    \/ /\ c.type = "value_threshold"
       /\ \/ Bad(c, "data_type") \/ Bad(c, "operator") \/ Bad(c, "threshold")
          \/ c.operator \notin {"gt", "lt", "eq", "gte", "lte"}
    \/ /\ c.type = "value_change"
       /\ \/ Bad(c, "data_type") \/ Bad(c, "change_type")
          \/ c.change_type \notin {"increase", "decrease", "any"}
          \/ ("min_change" \in DOMAIN c /\ Bad(c, "min_change"))
    \/ /\ c.type = "time_based"
       /\ \/ Bad(c, "time_type")
          \/ c.time_type \notin {"time_of_day", "day_of_week", "interval"}
          \/ c.time_type = "time_of_day"
                /\ (Bad(c, "start_time") \/ Bad(c, "end_time"))
          \/ c.time_type = "day_of_week" /\ Bad(c, "days")
    \/ c.type = "device_status" /\ Bad(c, "status")
    \/ /\ c.type = "composite"
       /\ \/ ("operator" \in DOMAIN c
                 /\ (Bad(c, "operator") \/ c.operator \notin {"AND", "OR"}))
          \/ ("conditions" \in DOMAIN c /\ Bad(c, "conditions"))

\* the condition with the defaults of the code written out
Defaulted(c) ==
    LET defaults ==
            CASE c.type = "composite" ->
                    [operator |-> "AND", conditions |-> <<>>]
              [] c.type = "value_change" -> [min_change |-> 0]
              [] c.type = "time_based" -> [interval_minutes |-> 60]
              [] OTHER -> <<>>
    IN  [j \in DOMAIN c \cup DOMAIN defaults |->
            IF j \in DOMAIN c THEN c[j] ELSE defaults[j]]

C18_TransientFailure ==
    [][\A t \in Threads :
          (th[t].pc = "rule" /\ Steps(t) /\ ~db_ok /\ obs'.reads > 0)
              => /\ th'[t].pc # "acting"
                 /\ last_evaluation' = last_evaluation
                 /\ disp' = disp]_vars

(***************************************************************************)
(* The interval condition in Spec.                                         *)
(***************************************************************************)
\* C20: a rule whose trigger is an interval condition is not dispatched
\* twice less than interval_minutes (60 when the key is absent) apart
C20_IntervalCondition ==
    \A r \in RuleIds :
        (/\ Exists(r)
         /\ IsObject(rules[r].trigger_condition.json)
         /\ "type" \in DOMAIN rules[r].trigger_condition.json
         /\ rules[r].trigger_condition.json.type = "time_based"
         /\ rules[r].trigger_condition.json.time_type = "interval"
         /\ disp[r].prev # None)
            => disp[r].last - disp[r].prev >=
                  60 * (IF "interval_minutes" \in DOMAIN rules[r].trigger_condition.json
                        THEN rules[r].trigger_condition.json.interval_minutes
                        ELSE 60)

(***************************************************************************)
(* Properties of SpecCreate.                                               *)
(***************************************************************************)
\* C21: a POST /automation/rules whose body lacks a required field is
\* answered with status 400 or 422 and adds no rule to the store
C21_CreationValidates ==
    (/\ probe.pc = "done"
     /\ ~({"name", "trigger_device_id", "trigger_condition", "action_device_id",
           "action_command"} \subseteq DOMAIN probe.body))
        => probe.status \in {400, 422} /\ rules = probe.before

(***************************************************************************)
(* Further properties of SpecAct.                                          *)
(***************************************************************************)
\* the action has no type, a type outside the five known ones, or is a
\* notification of a type other than log
Unimplemented(a) ==
    \/ "type" \notin DOMAIN a
    \/ a.type \notin {"device_command", "notification", "webhook", "delay",
                      "sequence"}
    \/ /\ a.type = "notification"
       /\ "notification_type" \in DOMAIN a
       /\ a.notification_type # "log"

\* C22: executing an action whose type is missing or unknown, or a
\* notification that is not of type log, publishes nothing, makes no HTTP
\* call and does not sleep, and the sub-actions after it in a sequence are
\* still executed
C22_UnknownActionsNoOp ==
    /\ probe.pc # "none" =>
          \A k \in 1..Len(probe.calls) :
              Unimplemented(probe.calls[k].action) =>
                  \A j \in 1..Len(probe.did[k]) :
                      probe.did[k][j].kind \notin
                          {"publish", "mqtt_unavailable", "http", "sleep"}
    /\ (/\ probe.pc = "done"
        /\ SequenceProbed
        /\ \A k \in 1..Len(probe.action.actions) :
               IsObject(probe.action.actions[k]))
          => \A k \in 1..Len(probe.action.actions) :
                 /\ Len(probe.calls) >= k
                 /\ probe.calls[k].action = probe.action.actions[k]

\* a sequence was executed to its end whose first sub-action has no type
\* and whose second, a webhook, made its call
C22_Witness ==
    /\ probe.pc = "done"
    /\ Len(probe.calls) = 2
    /\ "type" \notin DOMAIN probe.calls[1].action
    /\ probe.did[1] = <<[kind |-> "unknown_type"]>>
    /\ probe.did[2] = <<[kind |-> "http", call |-> "post", sent |-> "json",
                         ok |-> TRUE]>>

(***************************************************************************)
(* The order of a tick in Spec.                                            *)
(***************************************************************************)
\* C23: within a tick the rules are processed one at a time in the order
\* the store returned them; the engine takes no step (no later rule's gate
\* check, no later action, no next tick) before every Delay executed so far
\* has run its seconds, and a rule is dispatched only when no action is
\* still being executed
C23_SequentialTicks ==
    [][\A t \in Threads :
          Steps(t) =>
              /\ \A k \in 1..Len(effects) :
                    effects[k].did.kind = "sleep" =>
                        now >= effects[k].at + effects[k].did.seconds
              /\ th[t].pc = "rule" =>
                    /\ obs'.rule = th[t].snapshot[th[t].idx].id
                    /\ th[t].tick.done =
                          [k \in 1..(th[t].idx - 1) |-> th[t].snapshot[k].id]
                    /\ \A k \in 1..(Len(th[t].snapshot) - 1) :
                          th[t].snapshot[k].id < th[t].snapshot[k + 1].id
              /\ disp' # disp => th[t].todo = <<>>]_vars

\* the second rule of a tick was evaluated three seconds or more after the
\* tick began, the first rule's action having slept in between
C23_Witness ==
    /\ obs.rule = 2
    /\ \E t \in Threads :
          /\ InTick(t)
          /\ th[t].idx = 2
          /\ th[t].tick.at # None
          /\ obs.at >= th[t].tick.at + 3
          /\ \E k \in 1..Len(effects) :
                /\ effects[k].rule = 1
                /\ effects[k].did.kind = "sleep"
                /\ effects[k].at = th[t].tick.at

(***************************************************************************)
(* The fire-state map in Spec.                                             *)
(***************************************************************************)
\* C24 as claimed: a rule that has been evaluated has a fire-state entry
C24_AsClaimed ==
    (obs.rule # None /\ \A t \in Threads : th[t].pc # "acting")
        => last_evaluation[obs.rule] # None

\* C24: a rule's fire-state entry exists from the rule's first firing
\* onward; it changes only when that rule's own action has finished, to the
\* time of that moment, and not when the rule is gated, its condition is
\* false or another rule fires; an entry is never removed and its
\* timestamp never decreases
C24_FireStateLifecycle ==
    [][\A r \in RuleIds :
          /\ last_evaluation[r] # None =>
                /\ last_evaluation'[r] # None
                /\ last_evaluation'[r] >= last_evaluation[r]
          /\ last_evaluation'[r] # last_evaluation[r] =>
                /\ last_evaluation'[r] = now
                /\ \E t \in Threads :
                      /\ th[t].pc = "acting"
                      /\ th[t].snapshot[th[t].idx].id = r
                      /\ th[t].todo = <<>>
                      /\ disp[r].last # None
                      /\ disp[r].last >= th[t].tick.at
          /\ (last_evaluation[r] = None /\ disp[r].last # None) =>
                \E t \in Threads :
                    th[t].pc = "acting" /\ th[t].snapshot[th[t].idx].id = r
          /\ \A t \in Threads :
                (th[t].pc = "rule" /\ Steps(t))
                    => last_evaluation' = last_evaluation]_vars

\* one rule has fired twice and has its entry while the other, evaluated
\* false, has none
C24_Witness ==
    /\ obs.rule # None
    /\ obs.outcome = "false"
    /\ last_evaluation[obs.rule] = None
    /\ \E r \in RuleIds :
          /\ r # obs.rule
          /\ disp[r].prev # None
          /\ last_evaluation[r] # None
          /\ last_evaluation[r] > disp[r].last

(***************************************************************************)
(* Properties of SpecRows.                                                 *)
(***************************************************************************)
\* C25: no step of the engine writes to the rule store, the telemetry
\* store or the device statuses, and the step that evaluates a rule's
\* condition leaves the fire-state map alone and performs no command,
\* webhook or delay
C25_ReadOnlyEvaluation ==
    [][\A t \in Threads :
          Steps(t) =>
              /\ rules' = rules
              /\ samples' = samples
              /\ statuses' = statuses
              /\ th[t].pc = "rule" =>
                    /\ last_evaluation' = last_evaluation
                    /\ effects' = effects
                    /\ now' = now]_vars

\* the rule whose condition nests all five types of node was evaluated,
\* with its three reads, and its condition held
C25_Witness ==
    /\ obs.rule = 1
    /\ obs.outcome = "fired"
    /\ obs.reads = 3
    /\ rules = RowsStore
    /\ Len(samples) = 2

(***************************************************************************)
(* The moment a firing is recorded in Spec.                                *)
(***************************************************************************)
RECURSIVE DelaySeconds(_)
\* the seconds the delays of a list of sub-actions ask for
DelaySeconds(actions) ==
    IF actions = <<>> THEN 0
    ELSE LET a == Head(actions)
         IN  (IF IsObject(a) /\ Has(a, "type") /\ a.type = "delay"
                 /\ Has(a, "delay_seconds") /\ a.delay_seconds >= 0
              THEN a.delay_seconds ELSE 0)
             + DelaySeconds(Tail(actions))

\* the seconds the action of a stored rule takes
Duration(r) ==
    LET a == rules[r].action_command.json
    IN  IF a.type = "sequence" THEN DelaySeconds(a.actions) ELSE 0

\* C29: while a rule's action executes, its fire-state entry is still the
\* one its gate read; and two consecutive dispatches of a rule are at least
\* min_interval_seconds plus the seconds its action takes apart
C29_RecordedAfterAction ==
    /\ \A t \in Threads :
          th[t].pc = "acting"
             => /\ obs.rule = RuleOf(t)
                /\ last_evaluation[RuleOf(t)] = obs.entry
    /\ \A r \in RuleIds :
          (Exists(r) /\ disp[r].prev # None)
             => disp[r].last - disp[r].prev >= disp[r].T + Duration(r)

\* the interval rule, whose action sleeps 3 seconds and whose
\* min_interval_seconds is 7, is acting on its second dispatch, 13 seconds
\* after the first, with the entry written when the first action ended
C29_Witness ==
    \E r \in RuleIds :
        /\ th[1].pc = "acting" /\ RuleOf(1) = r
        /\ Duration(r) = 3
        /\ disp[r].T = 7
        /\ disp[r].prev = 0 /\ disp[r].last = 13
        /\ last_evaluation[r] = 3

FirstTickAfter(T) ==
    ((T + evaluation_interval - 1) \div evaluation_interval) * evaluation_interval

\* C28: no stored condition ever carries a last_trigger; an interval
\* condition without one is true whenever it is evaluated; a tick skips the
\* rule exactly while fewer than min_interval_seconds (30 when absent) have
\* passed since its recorded firing; and so two consecutive firings are
\* apart by the first tick time that is at least min_interval_seconds,
\* whatever interval_minutes is
C28_LastTriggerNeverWritten ==
    /\ \A r \in RuleIds :
          /\ Exists(r)
          /\ "last_trigger" \notin DOMAIN rules[r].trigger_condition.json
          /\ disp[r].prev # None
                => disp[r].last - disp[r].prev = FirstTickAfter(IntervalOf(rules[r]))
    /\ obs.outcome \in {"none", "gated", "fired"}
    /\ obs.outcome # "none"
          => /\ obs.holds
             /\ obs.T = IntervalOf(rules[obs.rule])
             /\ obs.outcome = "gated"
                   <=> (obs.entry # None /\ obs.at - obs.entry < obs.T)

\* a rule with interval_minutes 60 and min_interval_seconds 7 fired twice,
\* 10 seconds apart
C28_Witness ==
    \E r \in RuleIds :
        /\ "interval_minutes" \in DOMAIN rules[r].trigger_condition.json
        /\ rules[r].trigger_condition.json.interval_minutes = 60
        /\ IntervalOf(rules[r]) = 7
        /\ disp[r].prev # None
        /\ disp[r].last - disp[r].prev = 10
        /\ obs.rule = r /\ obs.outcome = "fired"

(***************************************************************************)
(* Properties of SpecFresh.                                                *)
(***************************************************************************)
\* the id the store gave the rule that the POST request created
Created ==
    LET used == {i \in RuleIds : probe.before[i].id # None}
    IN  IF used = {} THEN 1 ELSE Max(used) + 1

\* the thread is about to evaluate the row that the POST request created, a
\* row unlike any the store held before
AtCreatedRow(t) ==
    /\ probe.pc = "done"
    /\ probe.status = 201
    /\ th[t].pc = "rule"
    /\ th[t].snapshot[th[t].idx] = NewRow(Created, probe.body)
    /\ \A i \in RuleIds : probe.before[i] # NewRow(Created, probe.body)

\* C30: an evaluation that finds no fire-state entry for its rule is never
\* skipped by the gate, and a tick that reads a newly created rule (here a
\* rule that never fires, its device having no telemetry) is not skipped
\* by the gate either
C30_NoEntryPassesGate ==
    [][\A t \in Threads :
          (th[t].pc = "rule" /\ Steps(t))
              => /\ obs'.entry = None => obs'.outcome # "gated"
                 /\ AtCreatedRow(t) => obs'.outcome # "gated"]_vars

(***************************************************************************)
(* Properties of SpecChildren.                                             *)
(***************************************************************************)
\* the value of a child by the device it declares itself: a child that
\* reads telemetry or a status and declares no device is false
ChildHolds(c) ==
    IF c.type = "time_based" THEN TRUE
    ELSE /\ "device_id" \in DOMAIN c
         /\ IF c.type = "device_status"
            THEN statuses[c.device_id] = "online"
            ELSE c.device_id = "sensor_001" /\ samples # <<>>

\* C26: the value of a composite is that of its children, each taken
\* against the device it declares itself, whatever the rule's
\* trigger_device_id; a value_threshold, value_change or device_status
\* child that declares no device is false
C26_NoInheritedDevice ==
    probe.pc = "done" =>
        probe.result =
            IF probe.condition.operator = "AND"
            THEN \A k \in 1..Len(probe.condition.conditions) :
                    ChildHolds(probe.condition.conditions[k])
            ELSE \E k \in 1..Len(probe.condition.conditions) :
                    ChildHolds(probe.condition.conditions[k])

\* for a rule of sensor_001, which has matching telemetry, an OR over a
\* value_threshold child that declares no device was evaluated false
C26_Witness ==
    /\ probe.pc = "done"
    /\ ~probe.result
    /\ probe.device_id = "sensor_001"
    /\ samples # <<>>
    /\ probe.condition.operator = "OR"
    /\ Len(probe.condition.conditions) = 1
    /\ probe.condition.conditions[1].type = "value_threshold"
    /\ "device_id" \notin DOMAIN probe.condition.conditions[1]

=============================================================================
